---- MODULE Spec2Model ----
(***************************************************************************)
(* Life-calendar / year-calendar wallpaper generator (lifecalender.py).    *)
(*                                                                         *)
(* The model covers LifeCalendarGenerator: the period arithmetic of        *)
(* calculate_year_weeks, the flat dot stream of draw_grid and the          *)
(* month-row grid of draw_month_rows_year_calendar, together with the      *)
(* system date that each of them reads through date.today().               *)
(*                                                                         *)
(* A date is a record [year, month, day]; dates are compared field by      *)
(* field as Python compares them and subtracted through their proleptic    *)
(* Gregorian ordinals as datetime.date does.                               *)
(***************************************************************************)
EXTENDS Integers, Sequences, FiniteSets, TLC

VARIABLES gen, today, op, args, ret

vars == <<gen, today, op, args, ret>>

(***************************************************************************)
(* Bounds of the model.                                                    *)
(***************************************************************************)
\* Number of days the system date may advance past each initial date.
MaxDaysAdvanced == 2
\* Largest filled_count / total_count / grid size handed to draw_grid
\* besides the fixed examples.
MaxFilledCount == 12
MaxTotalCount == 21
MaxGridCols == 8
MaxGridRows == 3

(***************************************************************************)
(* Dates.                                                                  *)
(***************************************************************************)
D(y, m, d) == [year |-> y, month |-> m, day |-> d]

\* A missing (None) date argument.
NoDate == [year |-> 0, month |-> 0, day |-> 0]

\* A missing (None) integer argument.
None == -1

IsLeap(y) == y % 4 = 0 /\ (y % 100 # 0 \/ y % 400 = 0)

DaysInMonth(y, m) ==
    IF m = 2 THEN (IF IsLeap(y) THEN 29 ELSE 28)
    ELSE IF m \in {4, 6, 9, 11} THEN 30 ELSE 31

DaysBeforeYear(y) ==
    (y - 1) * 365 + ((y - 1) \div 4) - ((y - 1) \div 100) + ((y - 1) \div 400)

RECURSIVE DaysBeforeMonth(_, _)
DaysBeforeMonth(y, m) ==
    IF m <= 1 THEN 0 ELSE DaysBeforeMonth(y, m - 1) + DaysInMonth(y, m - 1)

\* date.toordinal()
ToOrdinal(d) == DaysBeforeYear(d.year) + DaysBeforeMonth(d.year, d.month) + d.day

\* (a - b).days
DaysBetween(a, b) == ToOrdinal(a) - ToOrdinal(b)

\* a < b, a <= b on dates: comparison of (year, month, day)
DateLT(a, b) ==
    \/ a.year < b.year
    \/ a.year = b.year /\ a.month < b.month
    \/ a.year = b.year /\ a.month = b.month /\ a.day < b.day

DateLE(a, b) == a = b \/ DateLT(a, b)

\* d - timedelta(days=1)
PrevDay(d) ==
    IF d.day > 1 THEN D(d.year, d.month, d.day - 1)
    ELSE IF d.month > 1 THEN D(d.year, d.month - 1, DaysInMonth(d.year, d.month - 1))
    ELSE D(d.year - 1, 12, 31)

\* the date the system clock shows on the day after d
NextDay(d) ==
    IF d.day < DaysInMonth(d.year, d.month) THEN D(d.year, d.month, d.day + 1)
    ELSE IF d.month < 12 THEN D(d.year, d.month + 1, 1)
    ELSE D(d.year + 1, 1, 1)

Max(a, b) == IF a >= b THEN a ELSE b
Min(a, b) == IF a <= b THEN a ELSE b

(***************************************************************************)
(* Inputs.                                                                 *)
(***************************************************************************)
\* DEVICE_PRESETS of the HTTP layer, the CLI default 1920x1080 and a custom
\* canvas of odd width (--width / ?width=)
Canvases == {<<390, 844>>, <<1125, 2436>>, <<1920, 1080>>, <<3840, 2160>>}

TodayDates == {D(2024, 1, 31), D(2024, 2, 28), D(2025, 11, 30),
               D(2025, 12, 30), D(2026, 2, 9), D(2026, 5, 30)}

StartDates == {D(2024, 2, 1), D(2025, 12, 1), D(2026, 2, 1), D(2026, 2, 10)}

EndDates == {D(2024, 1, 31), D(2024, 2, 29), D(2026, 2, 10), D(2026, 2, 28),
             D(2026, 5, 31)}

(***************************************************************************)
(* LifeCalendarGenerator.__init__                                          *)
(***************************************************************************)
DefaultDotSize == 14
DefaultSpacing == 24

NewGenerator(width, height, dot_size, spacing) ==
    [width |-> width, height |-> height,
     dot_size |-> dot_size, spacing |-> spacing,
     cols |-> (width - 2 * spacing) \div (dot_size + spacing),
     rows |-> (height - 2 * spacing) \div (dot_size + spacing)]

(***************************************************************************)
(* calculate_year_weeks                                                    *)
(***************************************************************************)
ResolveStart(start_date, t) ==
    IF start_date = NoDate THEN D(t.year, 1, 1) ELSE start_date

ResolveEnd(end_date, t) ==
    IF end_date = NoDate THEN D(t.year, 12, 31) ELSE end_date

\* total_days with the +1 left out: the end day is not counted
TotalDays_EndExcluded(period_start, period_end) == DaysBetween(period_end, period_start)

\* total_days: both the start day and the end day are counted
TotalDays(period_start, period_end) == DaysBetween(period_end, period_start) + 1

\* days_elapsed with neither the past-period branch nor the cap
DaysElapsed_Unclamped(t, period_start, period_end, total_days) ==
    IF DateLT(t, period_start) THEN 0 ELSE DaysBetween(t, period_start) + 1

\* days_elapsed: the three branches on today, then the cap at total_days
\* days_elapsed with today itself not counted
DaysElapsed_TodayExcluded(t, period_start, period_end, total_days) ==
    LET days_elapsed == IF DateLT(t, period_start) THEN 0
                        ELSE IF DateLT(period_end, t) THEN total_days
                        ELSE DaysBetween(t, period_start)
    IN  IF days_elapsed > total_days THEN total_days ELSE days_elapsed

DaysElapsed(t, period_start, period_end, total_days) ==
    LET days_elapsed == IF DateLT(t, period_start) THEN 0
                        ELSE IF DateLT(period_end, t) THEN total_days
                        ELSE DaysBetween(t, period_start) + 1
    IN  IF days_elapsed > total_days THEN total_days ELSE days_elapsed

\* weeks_elapsed with the past-period branch giving 0
WeeksElapsed_PastPeriodReset(t, period_start, period_end, total_weeks) ==
    LET weeks_elapsed == IF DateLT(t, period_start) THEN 0
                         ELSE IF DateLT(period_end, t) THEN 0
                         ELSE (DaysBetween(t, period_start) + 1) \div 7
    IN  IF weeks_elapsed > total_weeks THEN total_weeks ELSE weeks_elapsed

\* weeks_elapsed: the three branches on today, then the cap at total_weeks
WeeksElapsed(t, period_start, period_end, total_weeks) ==
    LET weeks_elapsed == IF DateLT(t, period_start) THEN 0
                         ELSE IF DateLT(period_end, t) THEN total_weeks
                         ELSE (DaysBetween(t, period_start) + 1) \div 7
    IN  IF weeks_elapsed > total_weeks THEN total_weeks ELSE weeks_elapsed

calculate_year_weeks(start_date, end_date, t) ==
    LET period_start == ResolveStart(start_date, t)
        period_end == ResolveEnd(end_date, t)
        total_days == TotalDays(period_start, period_end)
        total_weeks == (total_days + 6) \div 7
        weeks_elapsed == WeeksElapsed(t, period_start, period_end, total_weeks)
        days_elapsed == DaysElapsed(t, period_start, period_end, total_days)
    IN  [weeks_elapsed |-> weeks_elapsed, total_weeks |-> total_weeks,
         weeks_remaining |-> total_weeks - weeks_elapsed,
         days_elapsed |-> days_elapsed, total_days |-> total_days,
         days_remaining |-> total_days - days_elapsed,
         period_start |-> period_start, period_end |-> period_end,
         today |-> t]

(***************************************************************************)
(* Dot palette shared by draw_grid and draw_month_rows_year_calendar.      *)
(***************************************************************************)
period_colors_filled ==
    << <<255, 255, 255>>, <<180, 210, 255>>, <<255, 210, 180>>, <<180, 255, 210>> >>

period_colors_empty ==
    << <<35, 35, 40>>, <<35, 38, 50>>, <<50, 38, 35>>, <<38, 50, 40>> >>

today_dot == <<100, 200, 255>>
today_ring == <<50, 150, 220>>
today_glow == <<30, 100, 150>>
disabled_dot == <<22, 22, 28>>
highlight_color == <<255, 255, 255>>

\* glow colour of a filled dot: each channel max(40, c - 30)
\* the glow brightened by 30 instead of dimmed
GlowColor_Brightened(c) == <<c[1] + 30, c[2] + 30, c[3] + 30>>

GlowColor(c) == <<Max(40, c[1] - 30), Max(40, c[2] - 30), Max(40, c[3] - 30)>>

Layer(kind, pad, fill) == [kind |-> kind, pad |-> pad, fill |-> fill]

\* The three-layer today highlight: outer glow, middle ring, core dot.
TodayLayers ==
    <<Layer("today_glow", 6, today_glow), Layer("today_ring", 3, today_ring),
      Layer("dot", 0, today_dot)>>

\* A filled dot: glow, dot, inner highlight ellipse.
FilledLayers(c) ==
    <<Layer("glow", 2, GlowColor(c)), Layer("dot", 0, c),
      Layer("highlight", 0, highlight_color)>>

\* An empty or disabled dot: the dot alone.
PlainLayers(c) == <<Layer("dot", 0, c)>>

(***************************************************************************)
(* draw_month_rows_year_calendar                                           *)
(***************************************************************************)
MonthCols == 31

\* the month list that stops before the month of period_end
RECURSIVE MonthList_EndMonthExcluded(_, _, _)
MonthList_EndMonthExcluded(year, month, period_end) ==
    IF year < period_end.year \/ (year = period_end.year /\ month < period_end.month)
    THEN <<[year |-> year, month |-> month]>>
         \o (IF month = 12 THEN MonthList_EndMonthExcluded(year + 1, 1, period_end)
             ELSE MonthList_EndMonthExcluded(year, month + 1, period_end))
    ELSE <<>>

\* the month list between start and end (inclusive)
RECURSIVE MonthList(_, _, _)
MonthList(year, month, period_end) ==
    IF year < period_end.year \/ (year = period_end.year /\ month <= period_end.month)
    THEN <<[year |-> year, month |-> month]>>
         \o (IF month = 12 THEN MonthList(year + 1, 1, period_end)
             ELSE MonthList(year, month + 1, period_end))
    ELSE <<>>

\* the layout with the origin rounded up instead of down
MonthRowsLayout_OriginRoundedUp(g, months) ==
    LET cols == MonthCols
        rows == Max(1, Len(months))
        grid_width == cols * (g.dot_size + g.spacing) - g.spacing
        grid_height == rows * (g.dot_size + g.spacing) - g.spacing
    IN  [cols |-> cols, rows |-> rows,
         dot_size |-> g.dot_size, spacing |-> g.spacing,
         grid_width |-> grid_width, grid_height |-> grid_height,
         start_x |-> (g.width - grid_width + 1) \div 2,
         start_y |-> (g.height - grid_height + 1) \div 2]

MonthRowsLayout(g, months) ==
    LET cols == MonthCols
        rows == Max(1, Len(months))
        grid_width == cols * (g.dot_size + g.spacing) - g.spacing
        grid_height == rows * (g.dot_size + g.spacing) - g.spacing
    IN  [cols |-> cols, rows |-> rows,
         dot_size |-> g.dot_size, spacing |-> g.spacing,
         grid_width |-> grid_width, grid_height |-> grid_height,
         start_x |-> (g.width - grid_width) \div 2,
         start_y |-> (g.height - grid_height) \div 2]

\* the clamp with period_start itself taken when today precedes the period
FilledUntil_StartFilled(period_start, period_end, t) ==
    IF DateLT(t, period_start) THEN period_start
    ELSE IF DateLT(period_end, t) THEN period_end
    ELSE t

\* Clamp for the fill logic: the last date drawn as filled.
FilledUntil(period_start, period_end, t) ==
    IF DateLT(t, period_start) THEN PrevDay(period_start)
    ELSE IF DateLT(period_end, t) THEN period_end
    ELSE t

\* cell_date of a cell, NoDate when the day does not exist in the month
CellDate(y, m, col_idx) ==
    IF col_idx + 1 > DaysInMonth(y, m) THEN NoDate ELSE D(y, m, col_idx + 1)

\* the disabled test without the comparison against period_end
CellDisabled_EndUnchecked(cell_date, period_start, period_end) ==
    \/ cell_date = NoDate
    \/ DateLT(cell_date, period_start)

CellDisabled(cell_date, period_start, period_end) ==
    \/ cell_date = NoDate
    \/ DateLT(cell_date, period_start)
    \/ DateLT(period_end, cell_date)

\* the today test comparing the day of the month only
CellIsToday_DayOfMonthOnly(cell_date, period_start, period_end, t) ==
    cell_date.day = t.day /\ DateLE(period_start, t) /\ DateLE(t, period_end)

CellIsToday(cell_date, period_start, period_end, t) ==
    cell_date = t /\ DateLE(period_start, t) /\ DateLE(t, period_end)

\* the cell with its colour bucket shifted by the row it is drawn in
MonthCell_BucketShiftedByRow(g, lay, row_idx, col_idx, mon, period_start, period_end, t, filled_until) ==
    LET x == lay.start_x + col_idx * (g.dot_size + g.spacing)
        y_px == lay.start_y + row_idx * (g.dot_size + g.spacing)
        cell_date == CellDate(mon.year, mon.month, col_idx)
        week_group_index == (row_idx + col_idx \div 7) % Len(period_colors_filled)
        disabled == CellDisabled(cell_date, period_start, period_end)
        is_filled == ~disabled /\ DateLE(cell_date, filled_until)
        is_today == ~disabled /\ CellIsToday(cell_date, period_start, period_end, t)
        base_color == IF is_filled THEN period_colors_filled[week_group_index + 1]
                      ELSE period_colors_empty[week_group_index + 1]
        dot_color == IF disabled THEN disabled_dot
                     ELSE IF is_today THEN today_dot ELSE base_color
    IN  [row |-> row_idx, col |-> col_idx, x |-> x, y |-> y_px,
         cell_date |-> cell_date, week_group_index |-> week_group_index,
         disabled |-> disabled, is_filled |-> is_filled, is_today |-> is_today,
         dot_color |-> dot_color,
         layers |-> IF disabled THEN PlainLayers(disabled_dot)
                    ELSE IF is_today THEN TodayLayers
                    ELSE IF is_filled THEN FilledLayers(dot_color)
                    ELSE PlainLayers(dot_color)]

MonthCell(g, lay, row_idx, col_idx, mon, period_start, period_end, t, filled_until) ==
    LET x == lay.start_x + col_idx * (g.dot_size + g.spacing)
        y_px == lay.start_y + row_idx * (g.dot_size + g.spacing)
        cell_date == CellDate(mon.year, mon.month, col_idx)
        week_group_index == (col_idx \div 7) % Len(period_colors_filled)
        disabled == CellDisabled(cell_date, period_start, period_end)
        is_filled == ~disabled /\ DateLE(cell_date, filled_until)
        is_today == ~disabled /\ CellIsToday(cell_date, period_start, period_end, t)
        base_color == IF is_filled THEN period_colors_filled[week_group_index + 1]
                      ELSE period_colors_empty[week_group_index + 1]
        dot_color == IF disabled THEN disabled_dot
                     ELSE IF is_today THEN today_dot ELSE base_color
    IN  [row |-> row_idx, col |-> col_idx, x |-> x, y |-> y_px,
         cell_date |-> cell_date, week_group_index |-> week_group_index,
         disabled |-> disabled, is_filled |-> is_filled, is_today |-> is_today,
         dot_color |-> dot_color,
         layers |-> IF disabled THEN PlainLayers(disabled_dot)
                    ELSE IF is_today THEN TodayLayers
                    ELSE IF is_filled THEN FilledLayers(dot_color)
                    ELSE PlainLayers(dot_color)]

draw_month_rows_year_calendar(g, period_start, period_end, t) ==
    LET months == MonthList(period_start.year, period_start.month, period_end)
        lay == MonthRowsLayout(g, months)
        filled_until == FilledUntil(period_start, period_end, t)
    IN  [months |-> months, layout |-> lay, filled_until |-> filled_until,
         today |-> t,
         cells |-> [r \in 1..Len(months) |->
                     [c \in 1..lay.cols |->
                       MonthCell(g, lay, r - 1, c - 1, months[r],
                                 period_start, period_end, t, filled_until)]]]

(***************************************************************************)
(* draw_grid                                                               *)
(***************************************************************************)
GridLayout(g, total_count, grid_cols, grid_rows) ==
    LET cols == IF grid_cols # None THEN grid_cols ELSE g.cols
        rows == IF grid_rows # None THEN grid_rows ELSE g.rows
        total_dots_to_show == Min(total_count, cols * rows)
        used_cols == IF total_dots_to_show > 0 THEN Min(cols, total_dots_to_show) ELSE cols
        grid_width == used_cols * (g.dot_size + g.spacing) - g.spacing
        used_rows == IF total_dots_to_show > 0
                     THEN (total_dots_to_show + cols - 1) \div cols ELSE rows
        grid_height == used_rows * (g.dot_size + g.spacing) - g.spacing
    IN  [cols |-> cols, rows |-> rows,
         total_dots_to_show |-> total_dots_to_show,
         used_cols |-> used_cols, used_rows |-> used_rows,
         dot_size |-> g.dot_size, spacing |-> g.spacing,
         grid_width |-> grid_width, grid_height |-> grid_height,
         start_x |-> (g.width - grid_width) \div 2,
         start_y |-> (g.height - grid_height) \div 2]

\* the separator test without the first-column exclusion
DrawsSeparator_FirstColumnIncluded(period_index, prev_period_index, col) ==
    period_index # prev_period_index /\ prev_period_index # -1

\* a separator line is drawn before the first dot of each new period
DrawsSeparator(period_index, prev_period_index, col) ==
    period_index # prev_period_index /\ prev_period_index # -1 /\ col > 0

\* the filled test with the bound included
DotIsFilled_Inclusive(dot_index, filled_count) == dot_index <= filled_count

DotIsFilled(dot_index, filled_count) == dot_index < filled_count

\* the today test without the comparison against filled_count
DotIsToday_FilledCountIgnored(dot_index, filled_count, current_day_index) ==
    /\ current_day_index # None
    /\ dot_index = current_day_index

DotIsToday(dot_index, filled_count, current_day_index) ==
    /\ DotIsFilled(dot_index, filled_count)
    /\ current_day_index # None
    /\ dot_index = current_day_index

\* the dot with its colour bucket taken from the dot index itself
GridDot_BucketByDotIndex(lay, row, col, dot_index, prev_period_index, a) ==
    LET x == lay.start_x + col * (lay.dot_size + lay.spacing)
        y == lay.start_y + row * (lay.dot_size + lay.spacing)
        period_index == dot_index \div a.dots_per_period
        period_color_index == dot_index % Len(period_colors_filled)
        is_filled == DotIsFilled(dot_index, a.filled_count)
        is_today == DotIsToday(dot_index, a.filled_count, a.current_day_index)
        dot_color == IF is_today THEN today_dot
                     ELSE IF is_filled THEN period_colors_filled[period_color_index + 1]
                     ELSE period_colors_empty[period_color_index + 1]
    IN  [idx |-> dot_index, row |-> row, col |-> col, x |-> x, y |-> y,
         period_index |-> period_index,
         period_color_index |-> period_color_index,
         separator |-> DrawsSeparator(period_index, prev_period_index, col),
         is_filled |-> is_filled, is_today |-> is_today,
         dot_color |-> dot_color,
         layers |-> IF is_today THEN TodayLayers
                    ELSE IF is_filled THEN FilledLayers(dot_color)
                    ELSE PlainLayers(dot_color)]

GridDot(lay, row, col, dot_index, prev_period_index, a) ==
    LET x == lay.start_x + col * (lay.dot_size + lay.spacing)
        y == lay.start_y + row * (lay.dot_size + lay.spacing)
        period_index == dot_index \div a.dots_per_period
        period_color_index == period_index % Len(period_colors_filled)
        is_filled == DotIsFilled(dot_index, a.filled_count)
        is_today == DotIsToday(dot_index, a.filled_count, a.current_day_index)
        dot_color == IF is_today THEN today_dot
                     ELSE IF is_filled THEN period_colors_filled[period_color_index + 1]
                     ELSE period_colors_empty[period_color_index + 1]
    IN  [idx |-> dot_index, row |-> row, col |-> col, x |-> x, y |-> y,
         period_index |-> period_index,
         period_color_index |-> period_color_index,
         separator |-> DrawsSeparator(period_index, prev_period_index, col),
         is_filled |-> is_filled, is_today |-> is_today,
         dot_color |-> dot_color,
         layers |-> IF is_today THEN TodayLayers
                    ELSE IF is_filled THEN FilledLayers(dot_color)
                    ELSE PlainLayers(dot_color)]

\* the loop with dot_index also incremented at each row wrap
RECURSIVE GridLoop_WrapSkipsDot(_, _, _, _, _, _)
GridLoop_WrapSkipsDot(lay, row, col, dot_index, prev_period_index, a) ==
    IF row >= lay.rows THEN <<>>
    ELSE IF col >= lay.cols
         THEN IF dot_index >= lay.total_dots_to_show THEN <<>>
              ELSE GridLoop_WrapSkipsDot(lay, row + 1, 0, dot_index + 1, prev_period_index, a)
    ELSE IF dot_index >= lay.total_dots_to_show THEN <<>>
    ELSE <<GridDot(lay, row, col, dot_index, prev_period_index, a)>>
         \o GridLoop_WrapSkipsDot(lay, row, col + 1, dot_index + 1,
                                  dot_index \div a.dots_per_period, a)

\* the nested row/column loop with its two breaks; yields the dots in the
\* order in which they are drawn
RECURSIVE GridLoop(_, _, _, _, _, _)
GridLoop(lay, row, col, dot_index, prev_period_index, a) ==
    IF row >= lay.rows THEN <<>>
    ELSE IF col >= lay.cols
         THEN IF dot_index >= lay.total_dots_to_show THEN <<>>
              ELSE GridLoop(lay, row + 1, 0, dot_index, prev_period_index, a)
    ELSE IF dot_index >= lay.total_dots_to_show THEN <<>>
    ELSE <<GridDot(lay, row, col, dot_index, prev_period_index, a)>>
         \o GridLoop(lay, row, col + 1, dot_index + 1,
                     dot_index \div a.dots_per_period, a)

draw_grid(g, a) ==
    LET lay == GridLayout(g, a.total_count, a.grid_cols, a.grid_rows)
    IN  [layout |-> lay, dots |-> GridLoop(lay, 0, 0, 0, -1, a)]

\* arguments of draw_grid
(***************************************************************************)
(* Background gradient (the same code in draw_grid and in                  *)
(* draw_month_rows_year_calendar).  Float colour values are kept in units  *)
(* of 1/ColorScale and rounded down after each operation; blend weights    *)
(* and boost are counted in twentieths, multiplicative factors in per      *)
(* mille.                                                                  *)
(***************************************************************************)
ColorScale == 400

\* three of the 100 palettes: the first, the darkest and the brightest
color_palettes ==
    << [top_left |-> <<15, 25, 42>>, top_right |-> <<12, 32, 48>>,
        bottom_left |-> <<8, 14, 24>>, bottom_right |-> <<6, 20, 30>>],
       [top_left |-> <<6, 28, 16>>, top_right |-> <<24, 38, 14>>,
        bottom_left |-> <<4, 16, 9>>, bottom_right |-> <<14, 22, 8>>],
       [top_left |-> <<34, 20, 44>>, top_right |-> <<48, 28, 58>>,
        bottom_left |-> <<19, 11, 25>>, bottom_right |-> <<27, 15, 35>> ] >>

Clip(v, lo, hi) == Max(lo, Min(hi, v))

\* random.sample(color_palettes, num_palettes): the palettes from `first` on
SelectedPalettes(num_palettes, first) ==
    [i \in 1..num_palettes |->
        color_palettes[((first + i - 2) % Len(color_palettes)) + 1]]

\* weights in twentieths: [0.5, 0.5] or [w1, w2, 1 - w1 - w2]
BlendWeights(num_palettes, w1, w2) ==
    IF num_palettes = 2 THEN <<10, 10>> ELSE <<w1, w2, 20 - w1 - w2>>

\* blend_corner: weighted sum of one corner over the selected palettes (in 1/20)
blend_corner(selected_palettes, weights, corner_name) ==
    [ch \in 1..3 |->
        LET term(i) == selected_palettes[i][corner_name][ch] * weights[i]
        IN  IF Len(weights) = 2 THEN term(1) + term(2)
            ELSE term(1) + term(2) + term(3)]

\* np.clip((base + variation) * boost, lo, hi) in 1/ColorScale
BoostedCorner(base, variation, boost, lo, hi) ==
    [ch \in 1..3 |->
        Clip((base[ch] + variation * 20) * boost, lo * ColorScale, hi * ColorScale)]

\* the four corner colours of the numpy branch for one outcome of the draws
NumpyCorners(rnd) ==
    LET selected_palettes == SelectedPalettes(rnd.num_palettes, rnd.first)
        weights == BlendWeights(rnd.num_palettes, rnd.w1, rnd.w2)
        base(corner_name) == blend_corner(selected_palettes, weights, corner_name)
    IN  [top_left |-> BoostedCorner(base("top_left"), rnd.variation, rnd.boost, 10, 55),
         top_right |-> BoostedCorner(base("top_right"), rnd.variation_tr, rnd.boost, 10, 55),
         bottom_left |-> BoostedCorner(base("bottom_left"), rnd.variation, rnd.boost, 5, 35),
         bottom_right |-> BoostedCorner(base("bottom_right"), rnd.variation_br, rnd.boost, 5, 35)]

\* a * (1 - t) + b * t for t = num / den
Lerp(a, b, num, den) == (a * (den - num) + b * num) \div den

\* bilinear interpolation of the numpy branch at pixel (x, y)
VectorizedGradient(c, width, height, x, y) ==
    [ch \in 1..3 |->
        LET top == Lerp(c.top_left[ch], c.top_right[ch], x, width)
            bottom == Lerp(c.bottom_left[ch], c.bottom_right[ch], x, width)
        IN  Lerp(top, bottom, y, height)]

ISqrt(n) == CHOOSE r \in 0..100 : r * r <= n /\ n < (r + 1) * (r + 1)

\* dist / max_dist in per cent, from the doubled coordinates 2x - W, 2y - H
DistRatio(width, height, x, y) ==
    LET d2 == (2 * x - width) * (2 * x - width) + (2 * y - height) * (2 * y - height)
        m2 == width * width + height * height
    IN  ISqrt(Min(10000, ((d2 * 100) \div m2) * 100))

\* astype(np.uint8) of a value in 1/ColorScale
ToUint8(v) == (v \div ColorScale) % 256

\* vignette, centre glow, clip, noise, clip, uint8 for one pixel
FinalPixel(color, width, height, x, y, noise) ==
    LET ratio == DistRatio(width, height, x, y)
        vignette == 1000 - (ratio * 150) \div 100
        center_glow == 1000 + ((100 - ratio) * 200) \div 100
    IN  [ch \in 1..3 |->
            LET c1 == (color[ch] * vignette) \div 1000
                c2 == Clip((c1 * center_glow) \div 1000, 0, 255 * ColorScale)
                c3 == Clip((c2 * noise) \div 1000, 0, 255 * ColorScale)
            IN  ToUint8(c3)]

\* the four corner colours of the fallback branch (integers)
FallbackCorners(rnd) ==
    LET base_dark == 10 + rnd.base_dark
        top_base == 20 + rnd.top_base
    IN  [top_left |-> <<Clip(top_base + rnd.hue_shift_1, 8, 45),
                        Clip(top_base + rnd.r26, 8, 45),
                        Clip(top_base + rnd.r48, 8, 45)>>,
         top_right |-> <<Clip(top_base + rnd.r26, 8, 45),
                         Clip(top_base + rnd.hue_shift_2, 8, 45),
                         Clip(top_base + rnd.r26, 8, 45)>>,
         bottom_left |-> <<Clip(base_dark + rnd.hue_shift_1, 5, 25),
                           Clip(base_dark + rnd.r26, 5, 25),
                           Clip(base_dark + rnd.r48, 5, 25)>>,
         bottom_right |-> <<Clip(base_dark + rnd.r26, 5, 25),
                            Clip(base_dark + rnd.hue_shift_2, 5, 25),
                            Clip(base_dark + rnd.r26, 5, 25)>>]

\* colour of pixel (px, py) after the fallback loops: the rectangle of the
\* chunk and of the 5-pixel block the pixel starts (later rectangles
\* overwrite the shared last row and column of earlier ones)
FallbackGradient(c, width, height, px, py) ==
    LET chunk_size == Max(1, height \div 200)
        chunk_start == (py \div chunk_size) * chunk_size
        chunk_end == Min(chunk_start + chunk_size, height)
        y_center == (chunk_start + chunk_end) \div 2
        x == (px \div 5) * 5
    IN  [ch \in 1..3 |->
            LET top == Lerp(c.top_left[ch], c.top_right[ch], y_center, height)
                bottom == Lerp(c.bottom_left[ch], c.bottom_right[ch], y_center, height)
            IN  Lerp(top, bottom, x, width)]

\* the pixels followed through the pipeline: the canvas corners and the centre
SamplePixels(g) ==
    {<<0, 0>>, <<g.width - 1, 0>>, <<0, g.height - 1>>,
     <<g.width - 1, g.height - 1>>, <<g.width \div 2, g.height \div 2>>}

\* the background of one render: corners, gradient before the effects and
\* final RGB bytes; scale is the unit of the corner and gradient values
Background(g, has_numpy, rnd) ==
    IF has_numpy
    THEN LET c == NumpyCorners(rnd)
         IN  [has_numpy |-> TRUE, scale |-> ColorScale, corners |-> c,
              gradient |-> [p \in SamplePixels(g) |->
                              VectorizedGradient(c, g.width, g.height, p[1], p[2])],
              pixels |-> [p \in SamplePixels(g) |->
                            FinalPixel(VectorizedGradient(c, g.width, g.height, p[1], p[2]),
                                       g.width, g.height, p[1], p[2], rnd.noise)]]
    ELSE LET c == FallbackCorners(rnd)
             gradient == [p \in SamplePixels(g) |->
                             FallbackGradient(c, g.width, g.height, p[1], p[2])]
         IN  [has_numpy |-> FALSE, scale |-> 1, corners |-> c,
              gradient |-> gradient, pixels |-> gradient]

\* outcomes of the random draws of one render.  numpy branch: num_palettes,
\* the sample, w1 and w2 (twentieths), variation, the two further
\* randint(-2, 2), boost (twentieths) and the noise factor (per mille)
NumpyDraws ==
    [num_palettes : {2, 3}, first : {1, 3}, w1 : {6}, w2 : {8},
     variation : {-2, 2}, variation_tr : {-2}, variation_br : {2},
     boost : {20, 23}, noise : {925, 1075}]

\* fallback branch: randint(0, 8), randint(-5, 5) twice, randint(0, 12);
\* the draws of randint(2, 6) take one value, those of randint(4, 8) too
FallbackDraws ==
    [base_dark : {0, 8}, hue_shift_1 : {-5, 5}, hue_shift_2 : {5},
     top_base : {0, 12}, r26 : {2, 6}, r48 : {8}]

Draws(has_numpy) == IF has_numpy THEN NumpyDraws ELSE FallbackDraws

\* draw_grid and draw_month_rows_year_calendar with the background
draw_grid_image(g, a, has_numpy, rnd) ==
    [background |-> Background(g, has_numpy, rnd)] @@ draw_grid(g, a)

draw_month_rows_image(g, period_start, period_end, t, has_numpy, rnd) ==
    [background |-> Background(g, has_numpy, rnd)]
        @@ draw_month_rows_year_calendar(g, period_start, period_end, t)

(***************************************************************************)
(* calculate_life_weeks, generate_year_calendar                            *)
(***************************************************************************)
calculate_life_weeks(birth_date, t) ==
    LET total_weeks == 90 * 52
        total_days == 90 * 365
        days_lived == DaysBetween(t, birth_date)
        weeks_lived == days_lived \div 7
    IN  [weeks_lived |-> weeks_lived, total_weeks |-> total_weeks,
         weeks_remaining |-> total_weeks - weeks_lived,
         days_lived |-> days_lived, total_days |-> total_days,
         days_remaining |-> total_days - days_lived,
         today |-> t]

\* f"{days_left}d left · {percent_done}%"
FooterText(days_left, percent_done) == <<days_left, "d left · ", percent_done, "%">>

\* t_calc, t_gen and t_draw are the values of the three date.today() reads:
\* in calculate_year_weeks, in generate_year_calendar and in
\* draw_month_rows_year_calendar
generate_year_calendar(g, start_date, end_date, t_calc, t_gen, t_draw) ==
    LET c == calculate_year_weeks(start_date, end_date, t_calc)
        period_start == IF start_date # NoDate THEN start_date ELSE D(t_gen.year, 1, 1)
        period_end == IF end_date # NoDate THEN end_date ELSE D(t_gen.year, 12, 31)
        percent_done == IF c.total_days > 0
                        THEN (c.days_elapsed * 100) \div c.total_days ELSE 0
        days_left == c.days_remaining
    IN  [counts |-> c,
         period_start |-> period_start, period_end |-> period_end,
         footer_text |-> FooterText(days_left, percent_done),
         img |-> draw_month_rows_year_calendar(g, period_start, period_end, t_draw)]

(***************************************************************************)
(* Callers: the command line (main, --type year) and GET /api/generate.    *)
(***************************************************************************)
\* main's date-range validation: sys.exit(1) only when both dates are given
MainRejects(year_start_date, year_end_date) ==
    /\ year_start_date # NoDate
    /\ year_end_date # NoDate
    /\ ~DateLT(year_start_date, year_end_date)

main(g, year_start_date, year_end_date, t_calc, t_gen, t_draw) ==
    IF MainRejects(year_start_date, year_end_date)
    THEN [exit_code |-> 1, generated |-> FALSE, today |-> t_calc]
    ELSE [exit_code |-> 0, generated |-> TRUE, today |-> t_calc,
          year |-> generate_year_calendar(g, year_start_date, year_end_date,
                                          t_calc, t_gen, t_draw)]

\* request.args.get('start', '2025-12-01'), request.args.get('end', '2026-05-31')
ApiDefaultStart == D(2025, 12, 1)
ApiDefaultEnd == D(2026, 5, 31)

generate_wallpaper(start, end, width, height) ==
    LET start_dt == IF start # NoDate THEN start ELSE ApiDefaultStart
        end_dt == IF end # NoDate THEN end ELSE ApiDefaultEnd
    IN  IF DateLE(end_dt, start_dt)
        THEN [status |-> 400, generated |-> FALSE,
              error |-> "End date must be after start date"]
        ELSE IF width < 100 \/ height < 100
        THEN [status |-> 400, generated |-> FALSE,
              error |-> "Dimensions must be at least 100x100 pixels"]
        ELSE IF width > 8000 \/ height > 8000
        THEN [status |-> 400, generated |-> FALSE,
              error |-> "Dimensions cannot exceed 8000x8000 pixels"]
        ELSE [status |-> 200, generated |-> TRUE,
              start_date |-> start_dt, end_date |-> end_dt,
              dimensions |-> [width |-> width, height |-> height]]

\* --year-start / --year-end values of main; NoDate: option not given
YearStartArgs == {NoDate, D(2026, 2, 1), D(2026, 2, 10)}
YearEndArgs == {NoDate, D(2024, 2, 29), D(2026, 2, 10)}

\* --birth-date values: older than 90 years, a few weeks short of the 90th
\* birthday, ordinary, and in the future
BirthDates == {D(1930, 1, 1), D(1936, 6, 15), D(1990, 1, 15), D(2027, 1, 1)}

FilledCounts == {0, 10, MaxFilledCount}
TotalCounts == {52, MaxTotalCount}
GridColsArgs == {None, 7, MaxGridCols}
GridRowsArgs == {None, 8, MaxGridRows}
DayIndexArgs == {None, 2}
DotsPerPeriodArgs == {4, 7}

(***************************************************************************)
(* State machine.                                                          *)
(***************************************************************************)
Init ==
    /\ \E c \in Canvases : gen = NewGenerator(c[1], c[2], DefaultDotSize, DefaultSpacing)
    /\ today \in TodayDates
    /\ op = "idle"
    /\ args = <<>>
    /\ ret = <<>>

\* The system date moves on to the next day.
AdvanceDay ==
    /\ \E t0 \in TodayDates :
          /\ ToOrdinal(t0) <= ToOrdinal(today)
          /\ ToOrdinal(today) < ToOrdinal(t0) + MaxDaysAdvanced
    /\ today' = NextDay(today)
    /\ UNCHANGED <<gen, op, args, ret>>

\* A call is synchronous: it starts on an idle generator and runs to completion.
CalculateYearWeeks ==
    \E start_date \in StartDates \cup {NoDate}, end_date \in EndDates \cup {NoDate} :
        /\ op = "idle"
        /\ op' = "calculate_year_weeks"
        /\ args' = [start_date |-> start_date, end_date |-> end_date]
        /\ ret' = calculate_year_weeks(start_date, end_date, today)
        /\ UNCHANGED <<gen, today>>

DrawMonthRowsYearCalendar ==
    \E period_start \in StartDates, period_end \in EndDates :
        /\ op = "idle"
        /\ op' = "draw_month_rows_year_calendar"
        /\ args' = [period_start |-> period_start, period_end |-> period_end]
        /\ ret' = draw_month_rows_year_calendar(gen, period_start, period_end, today)
        /\ UNCHANGED <<gen, today>>

DrawGrid ==
    \E filled_count \in FilledCounts, total_count \in TotalCounts,
       grid_cols \in GridColsArgs, grid_rows \in GridRowsArgs,
       current_day_index \in DayIndexArgs, dots_per_period \in DotsPerPeriodArgs :
        /\ op = "idle"
        /\ op' = "draw_grid"
        /\ args' = [filled_count |-> filled_count, total_count |-> total_count,
                    grid_cols |-> grid_cols, grid_rows |-> grid_rows,
                    current_day_index |-> current_day_index,
                    dots_per_period |-> dots_per_period]
        /\ ret' = draw_grid(gen, args')
        /\ UNCHANGED <<gen, today>>

\* The caller saves the returned image (img.save) and the generator is idle again.
CalculateLifeWeeks ==
    \E birth_date \in BirthDates :
        /\ op = "idle"
        /\ op' = "calculate_life_weeks"
        /\ args' = [birth_date |-> birth_date]
        /\ ret' = calculate_life_weeks(birth_date, today)
        /\ UNCHANGED <<gen, today>>

\* the system date may still move on from t (the bound of AdvanceDay)
ClockCanAdvance(t) ==
    \E t0 \in TodayDates :
        /\ ToOrdinal(t0) <= ToOrdinal(t)
        /\ ToOrdinal(t) < ToOrdinal(t0) + MaxDaysAdvanced

\* midnight passing during one call: before the second or before the third
\* date.today() read, or not at all
ClockTicks == {<<0, 0>>, <<1, 0>>, <<0, 1>>}

\* python lifecalender.py --type year [--year-start D] [--year-end D]
Main ==
    \E year_start \in YearStartArgs, year_end \in YearEndArgs, ticks \in ClockTicks :
        LET t_calc == today
            t_gen == IF ticks[1] = 1 THEN NextDay(t_calc) ELSE t_calc
            t_draw == IF ticks[2] = 1 THEN NextDay(t_gen) ELSE t_gen
        IN  /\ op = "idle"
            /\ ticks # <<0, 0>> =>
                  ClockCanAdvance(today) /\ ~MainRejects(year_start, year_end)
            /\ op' = "main"
            /\ args' = [year_start |-> year_start, year_end |-> year_end]
            /\ ret' = main(gen, year_start, year_end, t_calc, t_gen, t_draw)
            /\ today' = t_draw
            /\ UNCHANGED gen

\* GET /api/generate?width=..&height=..[&start=D][&end=D]
GenerateWallpaper ==
    \E start \in StartDates \cup {NoDate}, end \in EndDates \cup {NoDate} :
        /\ op = "idle"
        /\ op' = "generate_wallpaper"
        /\ args' = [start |-> start, end |-> end,
                    width |-> gen.width, height |-> gen.height]
        /\ ret' = generate_wallpaper(start, end, gen.width, gen.height)
        /\ UNCHANGED <<gen, today>>

\* the same call made again on a later day
RepeatCall ==
    /\ op \in {"calculate_year_weeks", "draw_month_rows_year_calendar"}
    /\ DateLT(ret.today, today)
    /\ ret' = IF op = "calculate_year_weeks"
              THEN calculate_year_weeks(args.start_date, args.end_date, today)
              ELSE draw_month_rows_year_calendar(gen, args.period_start,
                                                 args.period_end, today)
    /\ UNCHANGED <<gen, today, op, args>>

SaveImage ==
    /\ op # "idle"
    /\ op' = "idle"
    /\ args' = <<>>
    /\ ret' = <<>>
    /\ UNCHANGED <<gen, today>>

Next ==
    \/ AdvanceDay
    \/ CalculateYearWeeks
    \/ DrawMonthRowsYearCalendar
    \/ DrawGrid
    \/ CalculateLifeWeeks
    \/ Main
    \/ GenerateWallpaper
    \/ RepeatCall
    \/ SaveImage

Spec == Init /\ [][Next]_vars

(***************************************************************************)
(* Renders with their background: the second specification.                *)
(***************************************************************************)
RenderCanvases == {<<390, 844>>, <<1920, 1080>>}
RenderTodays == {D(2025, 12, 30), D(2026, 2, 9), D(2026, 2, 10)}
RenderPeriods == {<<D(2026, 2, 10), D(2026, 2, 28)>>, <<D(2025, 12, 15), D(2026, 2, 10)>>}
RenderGridArgs ==
    [filled_count : {10}, total_count : {MaxTotalCount}, grid_cols : {7},
     grid_rows : {None}, current_day_index : {None, 2}, dots_per_period : {7}]

InitRender ==
    /\ \E c \in RenderCanvases : gen = NewGenerator(c[1], c[2], DefaultDotSize, DefaultSpacing)
    /\ today \in RenderTodays
    /\ op = "idle"
    /\ args = <<>>
    /\ ret = <<>>

\* the inputs of a render: the call's arguments and HAS_NUMPY of the process
RenderCall(o, a, has_numpy, rnd) ==
    IF o = "draw_grid"
    THEN draw_grid_image(gen, a.call, has_numpy, rnd)
    ELSE draw_month_rows_image(gen, a.call.period_start, a.call.period_end,
                               today, has_numpy, rnd)

RenderGrid ==
    \E a \in RenderGridArgs, has_numpy \in BOOLEAN :
      \E rnd \in Draws(has_numpy) :
        /\ op = "idle"
        /\ op' = "draw_grid"
        /\ args' = [call |-> a, has_numpy |-> has_numpy]
        /\ ret' = RenderCall("draw_grid", args', has_numpy, rnd)
        /\ UNCHANGED <<gen, today>>

RenderMonthRows ==
    \E period \in RenderPeriods, has_numpy \in BOOLEAN :
      \E rnd \in Draws(has_numpy) :
        /\ op = "idle"
        /\ op' = "draw_month_rows_year_calendar"
        /\ args' = [call |-> [period_start |-> period[1], period_end |-> period[2]],
                    has_numpy |-> has_numpy]
        /\ ret' = RenderCall("draw_month_rows_year_calendar", args', has_numpy, rnd)
        /\ UNCHANGED <<gen, today>>

\* the same call once more: same generator, arguments and day, fresh draws
ReRender ==
    /\ op \in {"draw_grid", "draw_month_rows_year_calendar"}
    /\ \E rnd \in Draws(args.has_numpy) :
          ret' = RenderCall(op, args, args.has_numpy, rnd)
    /\ UNCHANGED <<gen, today, op, args>>

NextRender ==
    \/ RenderGrid
    \/ RenderMonthRows
    \/ ReRender
    \/ SaveImage

SpecRender == InitRender /\ [][NextRender]_vars

(***************************************************************************)
(* The two loops taken one iteration at a time: the third specification.   *)
(* While a loop runs, ret holds its local variables.                       *)
(***************************************************************************)
\* the while condition with the month left out of the comparison
MonthLoopContinues_MonthUnchecked(year, month, period_end) ==
    year <= period_end.year

\* while (year, month) <= (period_end.year, period_end.month)
MonthLoopContinues(year, month, period_end) ==
    year < period_end.year \/ (year = period_end.year /\ month <= period_end.month)

LoopGridArgs ==
    [total_count : {MaxTotalCount, 52}, grid_cols : {None, MaxGridCols},
     grid_rows : {None, MaxGridRows}]

InitLoops ==
    /\ \E c \in RenderCanvases : gen = NewGenerator(c[1], c[2], DefaultDotSize, DefaultSpacing)
    /\ today \in RenderTodays
    /\ op = "idle"
    /\ args = <<>>
    /\ ret = <<>>

\* draw_month_rows_year_calendar reaches its month loop
EnterMonthLoop ==
    \E period_start \in StartDates, period_end \in EndDates :
        /\ op = "idle"
        /\ op' = "month_loop"
        /\ args' = [period_start |-> period_start, period_end |-> period_end]
        /\ ret' = [months |-> <<>>, year |-> period_start.year,
                   month |-> period_start.month, iterations |-> 0]
        /\ UNCHANGED <<gen, today>>

\* one test of the while condition, and the loop body when it holds
MonthLoopStep ==
    /\ op = "month_loop"
    /\ IF MonthLoopContinues(ret.year, ret.month, args.period_end)
       THEN /\ ret' = [months |-> Append(ret.months, [year |-> ret.year, month |-> ret.month]),
                       year |-> IF ret.month = 12 THEN ret.year + 1 ELSE ret.year,
                       month |-> IF ret.month = 12 THEN 1 ELSE ret.month + 1,
                       iterations |-> ret.iterations + 1]
            /\ op' = op
       ELSE /\ ret' = ret
            /\ op' = "month_loop_done"
    /\ UNCHANGED <<gen, today, args>>

\* draw_grid reaches its dot loop
EnterDotLoop ==
    \E a \in LoopGridArgs :
        /\ op = "idle"
        /\ op' = "dot_loop"
        /\ args' = a
        /\ ret' = [lay |-> GridLayout(gen, a.total_count, a.grid_cols, a.grid_rows),
                   row |-> 0, col |-> 0, dot_index |-> 0, iterations |-> 0]
        /\ UNCHANGED <<gen, today>>

\* one step of `for row ... for col ...`: the end of the outer range, the
\* end of the inner range with the outer break test, or one inner body with
\* the inner break test
DotLoopStep ==
    /\ op = "dot_loop"
    /\ IF ret.row >= ret.lay.rows
       THEN ret' = ret /\ op' = "dot_loop_done"
       ELSE IF ret.col >= ret.lay.cols
       THEN IF ret.dot_index >= ret.lay.total_dots_to_show
            THEN ret' = ret /\ op' = "dot_loop_done"
            ELSE ret' = [ret EXCEPT !.row = @ + 1, !.col = 0] /\ op' = op
       ELSE IF ret.dot_index >= ret.lay.total_dots_to_show
       THEN ret' = [ret EXCEPT !.iterations = @ + 1] /\ op' = "dot_loop_done"
       ELSE /\ ret' = [ret EXCEPT !.iterations = @ + 1, !.dot_index = @ + 1,
                                  !.col = @ + 1]
            /\ op' = op
    /\ UNCHANGED <<gen, today, args>>

\* the call goes on after its loop and returns
LoopReturn ==
    /\ op \in {"month_loop_done", "dot_loop_done"}
    /\ op' = "idle"
    /\ args' = <<>>
    /\ ret' = <<>>
    /\ UNCHANGED <<gen, today>>

NextLoops ==
    \/ EnterMonthLoop
    \/ MonthLoopStep
    \/ EnterDotLoop
    \/ DotLoopStep
    \/ LoopReturn

\* the interpreter runs a started loop on: weak fairness of the loop steps
SpecLoops ==
    /\ InitLoops
    /\ [][NextLoops]_vars
    /\ WF_vars(MonthLoopStep)
    /\ WF_vars(DotLoopStep)

(***************************************************************************)
(* Fonts, title and footer: the fourth specification.  ret holds the       *)
(* fonts, the layout and the two text placements of a render.              *)
(***************************************************************************)
\* a font: ImageFont.truetype(font_paths[path], size), ImageFont.load_default()
\* or None
TrueType(path, size) == [kind |-> "truetype", path |-> path, size |-> size]
DefaultFont == [kind |-> "default", path |-> 0, size |-> 0]
NoFont == [kind |-> "none", path |-> 0, size |-> 0]

\* lengths of the two font_paths lists; DejaVuSans-Bold is entry 10 of the
\* list of draw_grid
GridFontPaths == 11
MonthFontPaths == 6
GridDejaVu == 10

\* for font_path in font_paths: try ... break / except: continue
RECURSIVE FirstLoadable(_, _, _)
FirstLoadable(i, n, loadable) ==
    IF i > n THEN 0
    ELSE IF i \in loadable THEN i
    ELSE FirstLoadable(i + 1, n, loadable)

\* font resolution of draw_grid; loadable: the entries of its list that load
ResolveGridFonts(loadable) ==
    LET found == FirstLoadable(1, GridFontPaths, loadable)
        title_font_1 == IF found # 0 THEN TrueType(found, 32) ELSE NoFont
        footer_font_1 == IF found # 0 THEN TrueType(found, 18) ELSE NoFont
        title_font == IF title_font_1 # NoFont THEN title_font_1
                      ELSE IF GridDejaVu \in loadable THEN TrueType(GridDejaVu, 36)
                      ELSE DefaultFont
        footer_font_2 == IF title_font_1 # NoFont THEN footer_font_1
                         ELSE IF GridDejaVu \in loadable THEN TrueType(GridDejaVu, 22)
                         ELSE DefaultFont
    IN  [title_font |-> title_font,
         footer_font |-> IF footer_font_2 = NoFont THEN title_font ELSE footer_font_2,
         label_font |-> NoFont]

\* the resolution of the month-row renderer without the default font
ResolveMonthFonts_NoDefault(loadable) ==
    LET found == FirstLoadable(1, MonthFontPaths, loadable)
    IN  IF found # 0
        THEN [title_font |-> TrueType(found, 32), footer_font |-> TrueType(found, 18),
              label_font |-> TrueType(found, 16)]
        ELSE [title_font |-> NoFont, footer_font |-> NoFont, label_font |-> NoFont]

\* font resolution of draw_month_rows_year_calendar
ResolveMonthFonts(loadable) ==
    LET found == FirstLoadable(1, MonthFontPaths, loadable)
    IN  IF found # 0
        THEN [title_font |-> TrueType(found, 32), footer_font |-> TrueType(found, 18),
              label_font |-> TrueType(found, 16)]
        ELSE [title_font |-> DefaultFont, footer_font |-> DefaultFont,
              label_font |-> DefaultFont]

\* the title: box = <<title_width, title_height>> as measured by textbbox,
\* <<0, 0>> for an empty title_text (nothing is drawn)
TitlePlacement(lay, box) ==
    IF box = <<0, 0>>
    THEN [drawn |-> FALSE, width |-> 0, height |-> 0, x |-> 0, y |-> 0]
    ELSE [drawn |-> TRUE, width |-> box[1], height |-> box[2],
          x |-> lay.start_x + (lay.grid_width - box[1]) \div 2,
          y |-> Max(40, lay.start_y - box[2] - 50)]

\* the footer: footer_width as measured, 0 for an empty footer_text
FooterPlacement(lay, footer_width) ==
    IF footer_width = 0
    THEN [drawn |-> FALSE, width |-> 0, x |-> 0, y |-> 0]
    ELSE [drawn |-> TRUE, width |-> footer_width,
          x |-> lay.start_x + (lay.grid_width - footer_width) \div 2,
          y |-> lay.start_y + lay.grid_height + 40]

\* which font files load: none, DejaVu only, Roboto and DejaVu, Montserrat
FontEnvs(n) == {{}, {n}, {n - 1, n}, {1}}
TitleBoxes == {<<0, 0>>, <<181, 24>>, <<420, 30>>}
FooterWidths == {0, 121}

TextGrid ==
    \E a \in LoopGridArgs, loadable \in FontEnvs(GridDejaVu),
       box \in TitleBoxes, footer_width \in FooterWidths :
        LET lay == GridLayout(gen, a.total_count, a.grid_cols, a.grid_rows)
        IN  /\ op = "idle"
            /\ op' = "draw_grid"
            /\ args' = [call |-> a, loadable |-> loadable, title_box |-> box,
                        footer_width |-> footer_width]
            /\ ret' = [fonts |-> ResolveGridFonts(loadable), layout |-> lay,
                       title |-> TitlePlacement(lay, box),
                       footer |-> FooterPlacement(lay, footer_width)]
            /\ UNCHANGED <<gen, today>>

TextMonthRows ==
    \E period_start \in StartDates, period_end \in EndDates,
       loadable \in FontEnvs(MonthFontPaths),
       box \in TitleBoxes, footer_width \in FooterWidths :
        LET lay == MonthRowsLayout(gen, MonthList(period_start.year, period_start.month,
                                                  period_end))
        IN  /\ op = "idle"
            /\ op' = "draw_month_rows_year_calendar"
            /\ args' = [call |-> [period_start |-> period_start, period_end |-> period_end],
                        loadable |-> loadable, title_box |-> box,
                        footer_width |-> footer_width]
            /\ ret' = [fonts |-> ResolveMonthFonts(loadable), layout |-> lay,
                       title |-> TitlePlacement(lay, box),
                       footer |-> FooterPlacement(lay, footer_width)]
            /\ UNCHANGED <<gen, today>>

NextText ==
    \/ TextGrid
    \/ TextMonthRows
    \/ SaveImage

SpecText == InitRender /\ [][NextText]_vars

(***************************************************************************)
(* The flat day stream of lifecalender_standard.py beside the month rows   *)
(* of lifecalender.py: the fifth specification renders one period with     *)
(* both programs on the same day.                                          *)
(***************************************************************************)
\* the colour choice of the dot loop of lifecalender_standard.draw_grid
StandardDotClass(dot_index, filled_count, current_day_index) ==
    IF DotIsFilled(dot_index, filled_count)
    THEN IF current_day_index # None /\ dot_index = current_day_index
         THEN "today" ELSE "filled"
    ELSE "empty"

\* lifecalender_standard.generate_year_calendar with both dates given:
\* dots[idx + 1] is the dot of the date start_date + idx days
standard_generate_year_calendar(start_date, end_date, t) ==
    LET w == calculate_year_weeks(start_date, end_date, t)
        grid_cols == IF w.total_days <= 31 THEN w.total_days ELSE 31
        grid_rows == IF w.total_days <= 31 THEN 1
                     ELSE (w.total_days + grid_cols - 1) \div grid_cols
        current_day_index == IF w.days_elapsed > 0 THEN w.days_elapsed - 1 ELSE None
        total_dots_to_show == Min(w.total_days, grid_cols * grid_rows)
    IN  [days_elapsed |-> w.days_elapsed, total_days |-> w.total_days,
         grid_cols |-> grid_cols, grid_rows |-> grid_rows,
         current_day_index |-> current_day_index,
         dots |-> [i \in 1..total_dots_to_show |->
                     StandardDotClass(i - 1, w.days_elapsed, current_day_index)]]

\* the colour choice of a cell of the month-row calendar
MonthCellClass(cell) ==
    IF cell.disabled THEN "disabled"
    ELSE IF cell.is_today THEN "today"
    ELSE IF cell.is_filled THEN "filled"
    ELSE "empty"

InitFlat ==
    /\ \E c \in RenderCanvases : gen = NewGenerator(c[1], c[2], DefaultDotSize, DefaultSpacing)
    /\ today \in TodayDates
    /\ op = "idle"
    /\ args = <<>>
    /\ ret = <<>>

\* Both programs are run for the same period; their mains reject start > end.
YearCalendarBoth ==
    \E period_start \in StartDates, period_end \in EndDates :
        /\ op = "idle"
        /\ DateLE(period_start, period_end)
        /\ op' = "generate_year_calendar"
        /\ args' = [period_start |-> period_start, period_end |-> period_end]
        /\ ret' = [today |-> today,
                   standard |-> standard_generate_year_calendar(period_start, period_end,
                                                                today),
                   month_rows |-> draw_month_rows_year_calendar(gen, period_start,
                                                                period_end, today)]
        /\ UNCHANGED <<gen, today>>

NextFlat ==
    \/ YearCalendarBoth
    \/ SaveImage

SpecFlat == InitFlat /\ [][NextFlat]_vars

(***************************************************************************)
(* Two render calls in one process: the sixth specification.  The module   *)
(* level generators of random and numpy.random are process-wide; ret holds *)
(* their positions and the progress of the two calls.                      *)
(***************************************************************************)
CallIds == {1, 2}

\* positions the two generators can be at when the first call enters
RngSeeds == {0, 1}

\* the n-th raw output of a seeded generator: a fixed sequence
RandomStream(n) == (n * n * 5 + n * 3 + 2) % 17

\* random.choice([2, 3]), random.sample(color_palettes, num_palettes) and,
\* for three palettes, the two random.uniform weights, read at position n
DrawPalettes(n) ==
    LET num_palettes == 2 + (RandomStream(n) % 2)
    IN  [num_palettes |-> num_palettes,
         first |-> 1 + (RandomStream(n + 1) % Len(color_palettes)),
         w1 |-> IF num_palettes = 3 THEN 6 + (RandomStream(n + 2) % 5) ELSE 6,
         w2 |-> IF num_palettes = 3 THEN 5 + (RandomStream(n + 3) % 4) ELSE 8,
         next |-> IF num_palettes = 3 THEN n + 4 ELSE n + 2]

\* random.randint(-2, 2), random.uniform(1.0, 1.15) and the two
\* random.randint(-2, 2) of the right corners, read at position n
DrawCorners(n) ==
    [variation |-> (RandomStream(n) % 5) - 2,
     boost |-> 20 + (RandomStream(n + 1) % 4),
     variation_tr |-> (RandomStream(n + 2) % 5) - 2,
     variation_br |-> (RandomStream(n + 3) % 5) - 2,
     next |-> n + 4]

\* np.random.normal(1.0, 0.025, ...) read at position m of numpy's generator
DrawNoise(m) == [noise |-> 925 + 150 * ((RandomStream(m + 7) % 2)), next |-> m + 1]

\* the draws of a call that runs alone from generator positions n and m
DrawsAlone(n, m) ==
    LET p == DrawPalettes(n)
        c == DrawCorners(p.next)
    IN  [num_palettes |-> p.num_palettes, first |-> p.first, w1 |-> p.w1, w2 |-> p.w2,
         variation |-> c.variation, variation_tr |-> c.variation_tr,
         variation_br |-> c.variation_br, boost |-> c.boost,
         noise |-> DrawNoise(m).noise]

NoDraws ==
    [num_palettes |-> 2, first |-> 1, w1 |-> 6, w2 |-> 8, variation |-> 0,
     variation_tr |-> 0, variation_br |-> 0, boost |-> 20, noise |-> 1000]

NewCall ==
    [pc |-> "idle", entry_rng |-> 0, entry_np_rng |-> 0, own_rng |-> 0,
     rnd |-> NoDraws, foreign_write |-> FALSE, overlapped |-> FALSE,
     pixels |-> <<>>]

InitShared ==
    /\ \E c \in RenderCanvases : gen = NewGenerator(c[1], c[2], DefaultDotSize, DefaultSpacing)
    /\ today \in RenderTodays
    /\ op = "idle"
    /\ args = <<>>
    /\ \E n \in RngSeeds, m \in RngSeeds :
          ret = [rng |-> n, np_rng |-> m, calls |-> [c \in CallIds |-> NewCall]]

OtherActive(c) == \E o \in CallIds \ {c} : ret.calls[o].pc \notin {"idle", "done"}

\* a request thread enters the draw function
CallEnter ==
    \E c \in CallIds :
        /\ ret.calls[c].pc = "idle"
        /\ ret' = [ret EXCEPT !.calls =
                      [o \in CallIds |->
                          IF o = c
                          THEN [ret.calls[o] EXCEPT
                                   !.pc = "palettes", !.entry_rng = ret.rng,
                                   !.entry_np_rng = ret.np_rng, !.own_rng = ret.rng,
                                   !.overlapped = OtherActive(c)]
                          ELSE [ret.calls[o] EXCEPT
                                   !.overlapped = @ \/ ret.calls[o].pc \notin {"idle", "done"}]]]
        /\ op' = "draw_grid"
        /\ UNCHANGED <<gen, today, args>>

\* lines 292-300: the palette draws
StepPalettes ==
    \E c \in CallIds :
        LET p == DrawPalettes(ret.rng)
        IN  /\ ret.calls[c].pc = "palettes"
            /\ ret' = [ret EXCEPT
                         !.rng = p.next,
                         !.calls[c] =
                            [@ EXCEPT !.pc = "corners", !.own_rng = p.next,
                                      !.foreign_write = @ \/ ret.rng # ret.calls[c].own_rng,
                                      !.rnd = [@ EXCEPT !.num_palettes = p.num_palettes,
                                                        !.first = p.first,
                                                        !.w1 = p.w1, !.w2 = p.w2]]]
            /\ UNCHANGED <<gen, today, op, args>>

\* lines 318-324: the draws of the corner variations and of the boost
StepCorners ==
    \E c \in CallIds :
        LET d == DrawCorners(ret.rng)
        IN  /\ ret.calls[c].pc = "corners"
            /\ ret' = [ret EXCEPT
                         !.rng = d.next,
                         !.calls[c] =
                            [@ EXCEPT !.pc = "noise", !.own_rng = d.next,
                                      !.foreign_write = @ \/ ret.rng # ret.calls[c].own_rng,
                                      !.rnd = [@ EXCEPT !.variation = d.variation,
                                                        !.boost = d.boost,
                                                        !.variation_tr = d.variation_tr,
                                                        !.variation_br = d.variation_br]]]
            /\ UNCHANGED <<gen, today, op, args>>

\* line 358 to the return: the noise draw, then the rest of the render
StepNoise ==
    \E c \in CallIds :
        LET d == DrawNoise(ret.np_rng)
            rnd == [ret.calls[c].rnd EXCEPT !.noise = d.noise]
        IN  /\ ret.calls[c].pc = "noise"
            /\ ret' = [ret EXCEPT
                         !.np_rng = d.next,
                         !.calls[c] =
                            [@ EXCEPT !.pc = "done", !.rnd = rnd,
                                      !.foreign_write =
                                          @ \/ ret.np_rng # ret.calls[c].entry_np_rng,
                                      !.pixels = Background(gen, TRUE, rnd).pixels]]
            /\ op' = IF OtherActive(c) THEN "draw_grid" ELSE "idle"
            /\ UNCHANGED <<gen, today, args>>

NextShared ==
    \/ CallEnter
    \/ StepPalettes
    \/ StepCorners
    \/ StepNoise

SpecShared == InitShared /\ [][NextShared]_vars

(***************************************************************************)
(* Properties of calculate_year_weeks.                                     *)
(***************************************************************************)
\* C1: for every period with start <= end and every today, the returned
\* days_elapsed lies in 0..total_days, equals total_days when today is
\* after the end of the period and is 0 when today is before its start.
C1_ElapsedDaysClamped ==
    (op = "calculate_year_weeks"
        /\ ToOrdinal(ret.period_start) <= ToOrdinal(ret.period_end)) =>
        /\ 0 <= ret.days_elapsed
        /\ ret.days_elapsed <= ret.total_days
        /\ ToOrdinal(ret.today) > ToOrdinal(ret.period_end)
              => ret.days_elapsed = ret.total_days
        /\ ToOrdinal(ret.today) < ToOrdinal(ret.period_start)
              => ret.days_elapsed = 0

\* C1 witness: a call made several days after the end of a period of
\* several days, which returned days_elapsed = total_days.
C1_Witness ==
    /\ op = "calculate_year_weeks"
    /\ ToOrdinal(ret.period_start) < ToOrdinal(ret.period_end)
    /\ ToOrdinal(ret.today) > ToOrdinal(ret.period_end) + 1
    /\ ret.days_elapsed = ret.total_days

\* C2: for every period with start <= end, total_days = (end - start) + 1,
\* and for start <= today <= end, days_elapsed = (today - start) + 1: it is
\* 1 on the first day of the period and total_days on the last day.
C2_InclusiveDayCounts ==
    (op = "calculate_year_weeks"
        /\ ToOrdinal(ret.period_start) <= ToOrdinal(ret.period_end)) =>
        /\ ret.total_days = ToOrdinal(ret.period_end) - ToOrdinal(ret.period_start) + 1
        /\ (ret.period_start = D(2025, 12, 1) /\ ret.period_end = D(2026, 5, 31))
              => ret.total_days = 182
        /\ (ret.period_start = D(2024, 2, 1) /\ ret.period_end = D(2024, 2, 29))
              => ret.total_days = 29
        /\ (ToOrdinal(ret.period_start) <= ToOrdinal(ret.today)
               /\ ToOrdinal(ret.today) <= ToOrdinal(ret.period_end)) =>
              /\ ret.days_elapsed = ToOrdinal(ret.today) - ToOrdinal(ret.period_start) + 1
              /\ ret.today = ret.period_start => ret.days_elapsed = 1
              /\ ret.today = ret.period_end => ret.days_elapsed = ret.total_days

\* C2 witness: a call made on the last day of a period of several days.
C2_Witness ==
    /\ op = "calculate_year_weeks"
    /\ ToOrdinal(ret.period_start) < ToOrdinal(ret.period_end)
    /\ ret.today = ret.period_end
    /\ ret.days_elapsed = ret.total_days
    /\ ret.total_days > 1

(***************************************************************************)
(* Properties of draw_month_rows_year_calendar.                            *)
(***************************************************************************)
\* C3: in month-row mode the cell at (row = month, col = day - 1), col in
\* 0..30, is disabled if and only if day exceeds the number of days of that
\* month (February: 29 in a leap year, 28 otherwise) or the cell's date is
\* outside [period_start, period_end].  For 2024-02-01..2024-02-29 the
\* cell of day 29 is enabled and those of days 30 and 31 are disabled;
\* February 2026 has exactly 28 enabled cells.
C3_DisabledCells ==
    op = "draw_month_rows_year_calendar" =>
        /\ \A r \in 1..Len(ret.months) :
              /\ DOMAIN ret.cells[r] = 1..31
              /\ \A day \in 1..31 :
                    LET y == ret.months[r].year
                        m == ret.months[r].month
                        leap == y % 4 = 0 /\ (y % 100 # 0 \/ y % 400 = 0)
                        length == IF m = 2 THEN (IF leap THEN 29 ELSE 28)
                                  ELSE IF m \in {4, 6, 9, 11} THEN 30 ELSE 31
                        cell == ret.cells[r][day]
                    IN  /\ cell.col = day - 1
                        /\ cell.disabled <=>
                              \/ day > length
                              \/ ToOrdinal(D(y, m, day)) < ToOrdinal(args.period_start)
                              \/ ToOrdinal(D(y, m, day)) > ToOrdinal(args.period_end)
                        /\ cell.disabled => cell.layers = <<Layer("dot", 0, disabled_dot)>>
        /\ (args.period_start = D(2024, 2, 1) /\ args.period_end = D(2024, 2, 29)) =>
              /\ Len(ret.months) = 1
              /\ ~ret.cells[1][29].disabled
              /\ ret.cells[1][30].disabled
              /\ ret.cells[1][31].disabled
        /\ \A r \in 1..Len(ret.months) :
              (/\ ret.months[r] = [year |-> 2026, month |-> 2]
               /\ ToOrdinal(args.period_start) <= ToOrdinal(D(2026, 2, 1))
               /\ ToOrdinal(args.period_end) >= ToOrdinal(D(2026, 2, 28))) =>
                  Cardinality({c \in 1..31 : ~ret.cells[r][c].disabled}) = 28

\* C3 witness: the grid of 2025-12-01..2026-05-31 was drawn; its February
\* 2026 row has day 28 enabled and day 29 disabled.
C3_Witness ==
    /\ op = "draw_month_rows_year_calendar"
    /\ args.period_start = D(2025, 12, 1)
    /\ args.period_end = D(2026, 5, 31)
    /\ Len(ret.months) >= 3
    /\ ret.months[3] = [year |-> 2026, month |-> 2]
    /\ ~ret.cells[3][28].disabled
    /\ ret.cells[3][29].disabled

\* C4: in month-row mode an enabled cell is filled if and only if its date
\* is <= filled_until, where filled_until = today when start <= today <=
\* end; when today < start no enabled cell is filled and when today > end
\* every enabled cell is filled.
C4_FilledUntilToday ==
    op = "draw_month_rows_year_calendar" =>
        LET s == ToOrdinal(args.period_start)
            e == ToOrdinal(args.period_end)
            t == ToOrdinal(ret.today)
        IN  /\ (s <= t /\ t <= e) => ret.filled_until = ret.today
            /\ \A r \in 1..Len(ret.months) : \A c \in 1..31 :
                  LET cell == ret.cells[r][c]
                  IN  ~cell.disabled =>
                        /\ cell.is_filled <=>
                              ToOrdinal(cell.cell_date) <= ToOrdinal(ret.filled_until)
                        /\ (s <= t /\ t <= e) =>
                              (cell.is_filled <=> ToOrdinal(cell.cell_date) <= t)
                        /\ t < s => ~cell.is_filled
                        /\ t > e => cell.is_filled
                        /\ (cell.is_filled /\ ~cell.is_today) =>
                              cell.dot_color = period_colors_filled[(((c - 1) \div 7) % 4) + 1]
                        /\ (~cell.is_filled /\ ~cell.is_today) =>
                              cell.dot_color = period_colors_empty[(((c - 1) \div 7) % 4) + 1]

\* C4 witness: a grid drawn before its period began, whose first day is an
\* enabled cell left empty.
C4_Witness ==
    /\ op = "draw_month_rows_year_calendar"
    /\ ToOrdinal(ret.today) < ToOrdinal(args.period_start)
    /\ ToOrdinal(args.period_start) <= ToOrdinal(args.period_end)
    /\ \E c \in 1..31 :
          /\ ret.cells[1][c].cell_date = args.period_start
          /\ ~ret.cells[1][c].disabled
          /\ ~ret.cells[1][c].is_filled

\* C5: in month-row mode, when start <= today <= end exactly one cell, the
\* one whose date is today, is rendered as the today highlight (glow, ring
\* and core dot) and not as a plain filled or empty dot; when today is
\* outside the period no cell is rendered as the today highlight.
C5_OneTodayHighlight ==
    op = "draw_month_rows_year_calendar" =>
        LET s == ToOrdinal(args.period_start)
            e == ToOrdinal(args.period_end)
            t == ToOrdinal(ret.today)
            highlighted ==
                {rc \in (1..Len(ret.months)) \X (1..31) :
                    \E i \in 1..Len(ret.cells[rc[1]][rc[2]].layers) :
                        ret.cells[rc[1]][rc[2]].layers[i].kind \in {"today_glow", "today_ring"}}
        IN  /\ (s <= t /\ t <= e) =>
                  /\ Cardinality(highlighted) = 1
                  /\ \A rc \in highlighted :
                        LET cell == ret.cells[rc[1]][rc[2]]
                        IN  /\ cell.cell_date = ret.today
                            /\ [i \in 1..Len(cell.layers) |-> cell.layers[i].kind]
                                  = <<"today_glow", "today_ring", "dot">>
                            /\ cell.dot_color = today_dot
                            /\ cell.layers[3].fill = today_dot
            /\ ~(s <= t /\ t <= e) => highlighted = {}

\* C5 witness: a grid of several months drawn on a day inside its period,
\* with the cell of that day highlighted.
C5_Witness ==
    /\ op = "draw_month_rows_year_calendar"
    /\ Len(ret.months) > 1
    /\ ToOrdinal(args.period_start) < ToOrdinal(ret.today)
    /\ ToOrdinal(ret.today) < ToOrdinal(args.period_end)
    /\ \E r \in 1..Len(ret.months) : \E c \in 1..31 :
          /\ ret.cells[r][c].cell_date = ret.today
          /\ ret.cells[r][c].is_today

\* C6: for a period with start <= end, draw_month_rows_year_calendar builds
\* exactly one row per calendar month from the month of period_start
\* through the month of period_end, in chronological order, the year being
\* incremented after December; the number of rows is
\* 12*(end.year - start.year) + (end.month - start.month) + 1.  For
\* 2025-12-01..2026-05-31 the rows are Dec, Jan, Feb, Mar, Apr, May and
\* December 2025 has 31 enabled cells.
C6_OneRowPerMonth ==
    (op = "draw_month_rows_year_calendar"
        /\ ToOrdinal(args.period_start) <= ToOrdinal(args.period_end)) =>
        LET ps == args.period_start
            pe == args.period_end
            n == Len(ret.months)
        IN  /\ n = 12 * (pe.year - ps.year) + (pe.month - ps.month) + 1
            /\ ret.layout.rows = n
            /\ DOMAIN ret.cells = 1..n
            /\ ret.months[1] = [year |-> ps.year, month |-> ps.month]
            /\ ret.months[n] = [year |-> pe.year, month |-> pe.month]
            /\ \A i \in 1..(n - 1) :
                  ret.months[i + 1] =
                      IF ret.months[i].month = 12
                      THEN [year |-> ret.months[i].year + 1, month |-> 1]
                      ELSE [year |-> ret.months[i].year, month |-> ret.months[i].month + 1]
            /\ \A r \in 1..n : \A c \in 1..31 : ret.cells[r][c].row = r - 1
            /\ (ps = D(2025, 12, 1) /\ pe = D(2026, 5, 31)) =>
                  /\ ret.months = <<[year |-> 2025, month |-> 12], [year |-> 2026, month |-> 1],
                                    [year |-> 2026, month |-> 2], [year |-> 2026, month |-> 3],
                                    [year |-> 2026, month |-> 4], [year |-> 2026, month |-> 5]>>
                  /\ Cardinality({c \in 1..31 : ~ret.cells[1][c].disabled}) = 31

\* C6 witness: the six rows of 2025-12-01..2026-05-31, January 2026
\* following December 2025.
C6_Witness ==
    /\ op = "draw_month_rows_year_calendar"
    /\ args.period_start = D(2025, 12, 1)
    /\ args.period_end = D(2026, 5, 31)
    /\ Len(ret.months) = 6
    /\ ret.months[1] = [year |-> 2025, month |-> 12]
    /\ ret.months[2] = [year |-> 2026, month |-> 1]

(***************************************************************************)
(* Properties of draw_grid.                                                *)
(***************************************************************************)
\* C7 (as stated): in flat-stream mode dot idx is drawn with a filled
\* colour if and only if idx < filled_count and with an empty colour
\* otherwise.
C7_FilledColourIffBelowCount ==
    op = "draw_grid" =>
        \A i \in 1..Len(ret.dots) :
            LET d == ret.dots[i]
            IN  /\ (\E k \in 1..4 : d.dot_color = period_colors_filled[k])
                      <=> d.idx < args.filled_count
                /\ (\E k \in 1..4 : d.dot_color = period_colors_empty[k])
                      <=> d.idx >= args.filled_count

\* C7 (amended): dot idx is drawn with the empty colour of its bucket if
\* and only if idx >= filled_count; a dot with idx < filled_count is drawn
\* with the filled colour of its bucket, except the dot
\* idx = current_day_index (when one is given), which is drawn with the
\* today colour.  With filled_count = 10, total_count = 52 and no
\* current_day_index, dots 0..9 are filled and dots 10..51 are empty.
C7_FilledColourExceptToday ==
    op = "draw_grid" =>
        /\ \A i \in 1..Len(ret.dots) :
              LET d == ret.dots[i]
                  bucket == ((d.idx \div args.dots_per_period) % 4) + 1
                  drawn == d.layers[IF Len(d.layers) = 1 THEN 1
                                    ELSE IF d.layers[1].kind = "glow" THEN 2 ELSE 3].fill
                  isToday == args.current_day_index # None /\ d.idx = args.current_day_index
              IN  /\ drawn = d.dot_color
                  /\ d.idx >= args.filled_count <=> drawn = period_colors_empty[bucket]
                  /\ (d.idx < args.filled_count /\ ~isToday)
                        => drawn = period_colors_filled[bucket]
                  /\ (d.idx < args.filled_count /\ isToday) => drawn = today_dot
        /\ (/\ args.filled_count = 10
            /\ args.total_count = 52
            /\ args.current_day_index = None
            /\ Len(ret.dots) = 52) =>
              /\ \A i \in 1..10 : \E k \in 1..4 : ret.dots[i].dot_color = period_colors_filled[k]
              /\ \A i \in 11..52 : \E k \in 1..4 : ret.dots[i].dot_color = period_colors_empty[k]

\* C7 witness: 52 dots drawn with filled_count = 10 and dot 2 as the
\* current day: dot 2 has the today colour, dot 9 a filled colour and dot 10
\* an empty colour.
C7_Witness ==
    /\ op = "draw_grid"
    /\ args.filled_count = 10
    /\ args.current_day_index = 2
    /\ Len(ret.dots) = 52
    /\ ret.dots[3].dot_color = today_dot
    /\ ret.dots[10].dot_color = period_colors_filled[(9 \div args.dots_per_period) + 1]
    /\ ret.dots[11].dot_color = period_colors_empty[(10 \div args.dots_per_period) + 1]

\* C8 (as stated): draw_grid draws every dot index 0..total_count-1 exactly
\* once, in increasing order, dot idx at row idx div cols and column
\* idx mod cols, whatever grid_cols and grid_rows are.
C8_EveryRequestedDotDrawn ==
    op = "draw_grid" =>
        LET cols == IF args.grid_cols = None THEN gen.cols ELSE args.grid_cols
        IN  /\ Len(ret.dots) = args.total_count
            /\ \A i \in 1..Len(ret.dots) :
                  /\ ret.dots[i].idx = i - 1
                  /\ ret.dots[i].row = (i - 1) \div cols
                  /\ ret.dots[i].col = (i - 1) % cols

\* C8 (amended): for a grid of cols >= 1 columns and rows >= 1 rows,
\* draw_grid draws every dot index 0..min(total_count, cols*rows)-1 exactly
\* once, in increasing order, dot idx at row idx div cols and column
\* idx mod cols; the dots of index >= cols*rows are not drawn.
C8_DotsUpToGridCapacity ==
    op = "draw_grid" =>
        LET cols == IF args.grid_cols = None THEN gen.cols ELSE args.grid_cols
            rows == IF args.grid_rows = None THEN gen.rows ELSE args.grid_rows
            shown == IF args.total_count <= cols * rows THEN args.total_count
                     ELSE cols * rows
        IN  (cols >= 1 /\ rows >= 1) =>
              /\ Len(ret.dots) = shown
              /\ \A i \in 1..Len(ret.dots) :
                    /\ ret.dots[i].idx = i - 1
                    /\ ret.dots[i].row = (i - 1) \div cols
                    /\ ret.dots[i].col = (i - 1) % cols
                    /\ ret.dots[i].x = ret.layout.start_x
                                       + ((i - 1) % cols) * (gen.dot_size + gen.spacing)
                    /\ ret.dots[i].y = ret.layout.start_y
                                       + ((i - 1) \div cols) * (gen.dot_size + gen.spacing)

\* C8 witness: 52 dots were requested on a grid with fewer than 52 places
\* and several rows; the grid is full and the last place holds the last
\* drawn dot.
C8_Witness ==
    /\ op = "draw_grid"
    /\ args.total_count = 52
    /\ args.grid_cols # None
    /\ args.grid_rows # None
    /\ args.grid_rows > 1
    /\ args.grid_cols * args.grid_rows < 52
    /\ Len(ret.dots) = args.grid_cols * args.grid_rows
    /\ ret.dots[Len(ret.dots)].row = args.grid_rows - 1
    /\ ret.dots[Len(ret.dots)].col = args.grid_cols - 1

\* C9: in flat-stream mode a separator line is drawn immediately before
\* dot idx if and only if idx > 0, idx is a multiple of dots_per_period and
\* idx is not in the first column of its row (idx mod cols # 0); never
\* before dot 0.
C9_SeparatorBeforeNewPeriod ==
    op = "draw_grid" =>
        LET cols == IF args.grid_cols = None THEN gen.cols ELSE args.grid_cols
        IN  /\ \A i \in 1..Len(ret.dots) :
                  ret.dots[i].separator <=>
                      /\ i - 1 > 0
                      /\ (i - 1) % args.dots_per_period = 0
                      /\ (i - 1) % cols # 0
            /\ (args.dots_per_period = 7 /\ cols = 8 /\ Len(ret.dots) = 52) =>
                  {i - 1 : i \in {j \in 1..52 : ret.dots[j].separator}}
                      = {7, 14, 21, 28, 35, 42, 49}

\* C9 witness: with dots_per_period = 7 a separator was drawn before dot 7,
\* and a later multiple of 7 fell on the first column of a row and got none.
C9_Witness ==
    /\ op = "draw_grid"
    /\ args.dots_per_period = 7
    /\ Len(ret.dots) > 7
    /\ ret.dots[8].separator
    /\ \E i \in 2..Len(ret.dots) :
          /\ (i - 1) % 7 = 0
          /\ ret.dots[i].col = 0
          /\ ~ret.dots[i].separator

(***************************************************************************)
(* Layout of the grid on the canvas.                                       *)
(***************************************************************************)
\* C10: for every cols, rows >= 1 and every canvas of at least cols*rows
\* pixels, the layout used to draw the grid has dot size >= 3, spacing >= 1,
\* grid width <= canvas width and grid height <= canvas height, so that the
\* whole grid lies inside the canvas (origin >= 0 and origin + grid size <=
\* canvas size).  (Month-row grids are taken for periods with start <= end.)
C10_GridInsideCanvas ==
    (op \in {"draw_grid", "draw_month_rows_year_calendar"}
        /\ (op = "draw_month_rows_year_calendar"
               => ToOrdinal(args.period_start) <= ToOrdinal(args.period_end))
        /\ ret.layout.cols >= 1
        /\ ret.layout.rows >= 1
        /\ gen.width * gen.height >= ret.layout.cols * ret.layout.rows) =>
        /\ ret.layout.dot_size >= 3
        /\ ret.layout.spacing >= 1
        /\ ret.layout.grid_width <= gen.width
        /\ ret.layout.grid_height <= gen.height
        /\ ret.layout.start_x >= 0
        /\ ret.layout.start_y >= 0
        /\ ret.layout.start_x + ret.layout.grid_width <= gen.width
        /\ ret.layout.start_y + ret.layout.grid_height <= gen.height

(***************************************************************************)
(* Precondition violations.                                                *)
(***************************************************************************)
\* C12: a call whose inputs violate a precondition (here: period_start
\* after period_end) ends in an error and produces no result; it never
\* substitutes a valid-looking state such as a one-row grid for an empty
\* month list or a non-positive total_days.
C12_InvalidPeriodRaises ==
    /\ (op = "draw_month_rows_year_calendar"
           /\ ToOrdinal(args.period_start) > ToOrdinal(args.period_end)) =>
          /\ "error" \in DOMAIN ret
          /\ "layout" \notin DOMAIN ret
          /\ "cells" \notin DOMAIN ret
    /\ (op = "calculate_year_weeks"
           /\ args.start_date # NoDate /\ args.end_date # NoDate
           /\ ToOrdinal(args.start_date) > ToOrdinal(args.end_date)) =>
          /\ "error" \in DOMAIN ret
          /\ "total_days" \notin DOMAIN ret

(***************************************************************************)
(* Life counts.                                                            *)
(***************************************************************************)
\* C13: for every birth date and every today, calculate_life_weeks returns
\* counts clamped into range: 0 <= weeks_lived <= total_weeks,
\* 0 <= days_lived <= total_days, weeks_remaining >= 0, days_remaining >= 0,
\* with total_weeks = 90*52 and total_days = 90*365.
C13_LifeCountsClamped ==
    op = "calculate_life_weeks" =>
        /\ ret.total_weeks = 90 * 52
        /\ ret.total_days = 90 * 365
        /\ 0 <= ret.weeks_lived /\ ret.weeks_lived <= ret.total_weeks
        /\ 0 <= ret.days_lived /\ ret.days_lived <= ret.total_days
        /\ ret.weeks_remaining >= 0
        /\ ret.days_remaining >= 0

(***************************************************************************)
(* Validation of the period by the callers.                                *)
(***************************************************************************)
\* C14: main and /api/generate let a period reach image generation if and
\* only if start <= end, whichever of the two dates were supplied and
\* whichever were defaulted; a one-day period (start = end) is accepted.
C14_GeneratedIffStartNotAfterEnd ==
    /\ op = "main" =>
          LET period_start == ResolveStart(args.year_start, ret.today)
              period_end == ResolveEnd(args.year_end, ret.today)
          IN  ret.generated <=> DateLE(period_start, period_end)
    /\ op = "generate_wallpaper" =>
          LET start_dt == IF args.start # NoDate THEN args.start ELSE ApiDefaultStart
              end_dt == IF args.end # NoDate THEN args.end ELSE ApiDefaultEnd
          IN  ret.generated <=> DateLE(start_dt, end_dt)

(***************************************************************************)
(* Grid size and centring.                                                 *)
(***************************************************************************)
\* C18: the grid width is used_cols*(dot_size+spacing) - spacing and the
\* grid height is used_rows*(dot_size+spacing) - spacing; the origin
\* centres the grid with floor division: the left and right gaps (top and
\* bottom gaps) differ by at most one pixel and an odd leftover pixel goes
\* to the right / bottom side.
C18_GridCentredByFloor ==
    (op \in {"draw_grid", "draw_month_rows_year_calendar"}) =>
        LET lay == ret.layout
            pitch == gen.dot_size + gen.spacing
            used_cols == IF op = "draw_grid"
                         THEN IF Len(ret.dots) = 0 THEN lay.cols
                              ELSE Cardinality({ret.dots[i].col : i \in 1..Len(ret.dots)})
                         ELSE 31
            used_rows == IF op = "draw_grid"
                         THEN IF Len(ret.dots) = 0 THEN lay.rows
                              ELSE ret.dots[Len(ret.dots)].row + 1
                         ELSE IF Len(ret.months) = 0 THEN 1 ELSE Len(ret.months)
            left == lay.start_x
            right == gen.width - lay.start_x - lay.grid_width
            top == lay.start_y
            bottom == gen.height - lay.start_y - lay.grid_height
        IN  /\ lay.grid_width = used_cols * pitch - gen.spacing
            /\ lay.grid_height = used_rows * pitch - gen.spacing
            /\ right - left \in {0, 1}
            /\ bottom - top \in {0, 1}
            /\ right - left = (gen.width - lay.grid_width) % 2
            /\ bottom - top = (gen.height - lay.grid_height) % 2

\* C18 witness: a month-row grid on a canvas whose leftover width is odd;
\* the right gap is one pixel larger than the left gap.
C18_Witness ==
    /\ op = "draw_month_rows_year_calendar"
    /\ (gen.width - ret.layout.grid_width) % 2 = 1
    /\ gen.width - ret.layout.start_x - ret.layout.grid_width = ret.layout.start_x + 1

(***************************************************************************)
(* Colour buckets of the flat stream.                                      *)
(***************************************************************************)
\* C19: in flat-stream mode the colour bucket of dot idx is
\* (idx div dots_per_period) mod len(period_colors_filled); the same bucket
\* selects the filled and the empty colour and is a valid index of both
\* lists.
C19_BucketOfDot ==
    op = "draw_grid" =>
        \A i \in 1..Len(ret.dots) :
            LET d == ret.dots[i]
                bucket == ((i - 1) \div args.dots_per_period) % Len(period_colors_filled)
            IN  /\ d.period_color_index = bucket
                /\ bucket + 1 \in DOMAIN period_colors_filled
                /\ bucket + 1 \in DOMAIN period_colors_empty
                /\ d.dot_color \in {period_colors_filled[bucket + 1],
                                    period_colors_empty[bucket + 1], today_dot}
                /\ d.dot_color = today_dot => d.idx = args.current_day_index

\* C19 witness: a stream long enough for the buckets to wrap around: dot 28
\* with dots_per_period = 7 is in period 4 and uses bucket 0 again.
C19_Witness ==
    /\ op = "draw_grid"
    /\ args.dots_per_period = 7
    /\ Len(ret.dots) > 28
    /\ ret.dots[29].period_index = 4
    /\ ret.dots[29].period_color_index = 0
    /\ ret.dots[29].dot_color = period_colors_empty[1]

(***************************************************************************)
(* Background and theme (specification SpecRender).                        *)
(***************************************************************************)
\* C11: two renders with identical inputs (same canvas, call arguments and
\* day) produce identical themes (background corner colours, dot colours)
\* and byte-identical pixels.
C11_SameInputsSameImage ==
    [][(/\ op \in {"draw_grid", "draw_month_rows_year_calendar"}
        /\ op' = op /\ args' = args /\ gen' = gen /\ today' = today)
       => (/\ ret'.background.corners = ret.background.corners
           /\ ret'.background.pixels = ret.background.pixels
           /\ ret' = ret)]_vars

\* C15: every colour of a render has all channels in [0,255]: the four
\* background corners, the filled and empty period colours, the today and
\* disabled colours, every fill drawn for a dot, and every output pixel;
\* the filled and empty lists have the same length, at least 4.
C15_ChannelsInRange ==
    LET InRange(c, scale) == \A ch \in 1..3 : 0 <= c[ch] /\ c[ch] <= 255 * scale
        LayersInRange(layers) == \A i \in 1..Len(layers) : InRange(layers[i].fill, 1)
    IN  /\ Len(period_colors_filled) = Len(period_colors_empty)
        /\ Len(period_colors_filled) >= 4
        /\ \A i \in 1..Len(period_colors_filled) :
              InRange(period_colors_filled[i], 1) /\ InRange(period_colors_empty[i], 1)
        /\ InRange(today_dot, 1) /\ InRange(today_ring, 1) /\ InRange(today_glow, 1)
        /\ InRange(disabled_dot, 1)
        /\ op \in {"draw_grid", "draw_month_rows_year_calendar"} =>
              LET b == ret.background
              IN  /\ InRange(b.corners.top_left, b.scale)
                  /\ InRange(b.corners.top_right, b.scale)
                  /\ InRange(b.corners.bottom_left, b.scale)
                  /\ InRange(b.corners.bottom_right, b.scale)
                  /\ \A p \in DOMAIN b.pixels :
                        \A ch \in 1..3 : b.pixels[p][ch] \in 0..255
        /\ op = "draw_grid" =>
              \A i \in 1..Len(ret.dots) :
                  InRange(ret.dots[i].dot_color, 1) /\ LayersInRange(ret.dots[i].layers)
        /\ op = "draw_month_rows_year_calendar" =>
              \A r \in 1..Len(ret.cells) : \A c \in 1..Len(ret.cells[r]) :
                  /\ InRange(ret.cells[r][c].dot_color, 1)
                  /\ LayersInRange(ret.cells[r][c].layers)

\* C15 witness: a numpy render in which a blended and boosted corner channel
\* was clipped to the upper bound 55 and a filled cell (with its dimmed glow
\* fill) was drawn.
C15_Witness ==
    /\ op = "draw_month_rows_year_calendar"
    /\ ret.background.has_numpy
    /\ ret.background.corners.top_right[3] = 55 * ColorScale
    /\ \E r \in 1..Len(ret.cells) : \E c \in 1..Len(ret.cells[r]) :
          /\ ret.cells[r][c].is_filled /\ ~ret.cells[r][c].is_today
          /\ Len(ret.cells[r][c].layers) > 1

\* C16: before vignette, glow and noise the background at pixel (x, y) is
\* the bilinear interpolation top = lerp(TL, TR, x/W), bottom =
\* lerp(BL, BR, x/W), colour = lerp(top, bottom, y/H) (to within 3 colour
\* levels of rounding and block quantisation); pixel (0,0) has colour TL,
\* the top row ends at TR and the left column ends at BL.
C16_BackgroundIsBilinear ==
    op \in {"draw_grid", "draw_month_rows_year_calendar"} =>
        LET b == ret.background
            W == gen.width
            H == gen.height
            tol == 3 * b.scale
            Near(u, v) == u - v <= tol /\ v - u <= tol
        IN  \A ch \in 1..3 :
              /\ \A p \in DOMAIN b.gradient :
                    LET top == Lerp(b.corners.top_left[ch], b.corners.top_right[ch], p[1], W)
                        bottom == Lerp(b.corners.bottom_left[ch], b.corners.bottom_right[ch], p[1], W)
                    IN  Near(b.gradient[p][ch], Lerp(top, bottom, p[2], H))
              /\ Near(b.gradient[<<0, 0>>][ch], b.corners.top_left[ch])
              /\ Near(b.gradient[<<W - 1, 0>>][ch], b.corners.top_right[ch])
              /\ Near(b.gradient[<<0, H - 1>>][ch], b.corners.bottom_left[ch])

\* C17: the fallback gradient and the vectorized gradient map the same four
\* corner colours to the same pixel colours, up to the fallback's rounding
\* and its 5-pixel and chunk quantisation (3 colour levels).
C17_FallbackMatchesVectorized ==
    op \in {"draw_grid", "draw_month_rows_year_calendar"} =>
        LET b == ret.background
            k == ColorScale \div b.scale
            Scaled(c) == <<c[1] * k, c[2] * k, c[3] * k>>
            corners == [top_left |-> Scaled(b.corners.top_left),
                        top_right |-> Scaled(b.corners.top_right),
                        bottom_left |-> Scaled(b.corners.bottom_left),
                        bottom_right |-> Scaled(b.corners.bottom_right)]
            tol == 3 * ColorScale
        IN  \A p \in SamplePixels(gen) : \A ch \in 1..3 :
                LET v == VectorizedGradient(corners, gen.width, gen.height, p[1], p[2])[ch]
                    f == FallbackGradient(corners, gen.width, gen.height, p[1], p[2])[ch]
                IN  v - f <= tol /\ f - v <= tol

\* C20: the class of every month-row cell (disabled, filled, empty, today)
\* and its core dot colour are a function of the cell's date, period_start,
\* period_end and today only, whatever the background draws, the numpy
\* branch and the canvas size.
C20_CellClassFromDatesOnly ==
    op = "draw_month_rows_year_calendar" =>
        \A r \in 1..Len(ret.cells) : \A c \in 1..Len(ret.cells[r]) :
            LET cell == ret.cells[r][c]
                d == cell.cell_date
                ps == args.call.period_start
                pe == args.call.period_end
                t == ret.today
                class == IF d = NoDate \/ DateLT(d, ps) \/ DateLT(pe, d) THEN "disabled"
                         ELSE IF d = t THEN "today"
                         ELSE IF DateLT(d, t) THEN "filled"
                         ELSE "empty"
                bucket == ((d.day - 1) \div 7) % 4
                colour == CASE class = "disabled" -> <<22, 22, 28>>
                            [] class = "today" -> <<100, 200, 255>>
                            [] class = "filled" -> period_colors_filled[bucket + 1]
                            [] class = "empty" -> period_colors_empty[bucket + 1]
            IN  /\ cell.disabled <=> class = "disabled"
                /\ cell.is_today <=> class = "today"
                /\ (cell.is_filled /\ ~cell.is_today) <=> class = "filled"
                /\ (~cell.disabled /\ ~cell.is_filled) <=> class = "empty"
                /\ cell.dot_color = colour
                /\ cell.layers[Len(cell.layers) - (IF class = "filled" THEN 1 ELSE 0)].fill = colour

\* C20 witness: a three-row render on a numpy background that holds cells of
\* all four classes, among them a filled cell in the last row.
C20_Witness ==
    /\ op = "draw_month_rows_year_calendar"
    /\ args.has_numpy
    /\ Len(ret.cells) = 3
    /\ \E c \in 1..31 : ret.cells[1][c].disabled
    /\ \E c \in 1..31 : ret.cells[3][c].is_filled /\ ~ret.cells[3][c].is_today
    /\ \E c \in 1..31 : ret.cells[3][c].is_today
    /\ \E c \in 1..31 : ~ret.cells[3][c].disabled /\ ~ret.cells[3][c].is_filled

(***************************************************************************)
(* Today highlight of the flat stream.                                     *)
(***************************************************************************)
\* C28: in flat-stream mode at most one dot is rendered as the
\* today-highlight, namely dot current_day_index, and only when
\* current_day_index is given and below filled_count; that dot gets the
\* glow (pad 6), the ring (pad 3) and the core dot in this order and
\* neither the filled-dot glow nor the inner highlight ellipse.
C28_OneTodayDotInStream ==
    op = "draw_grid" =>
        LET HasKind(d, kind) == \E j \in 1..Len(d.layers) : d.layers[j].kind = kind
            highlighted == {i \in 1..Len(ret.dots) :
                               HasKind(ret.dots[i], "today_glow")
                                 \/ HasKind(ret.dots[i], "today_ring")
                                 \/ ret.dots[i].dot_color = today_dot}
        IN  /\ Cardinality(highlighted) <= 1
            /\ \A i \in 1..Len(ret.dots) :
                  i \in highlighted <=>
                      /\ args.current_day_index # None
                      /\ i - 1 = args.current_day_index
                      /\ args.current_day_index < args.filled_count
            /\ \A i \in highlighted :
                  LET l == ret.dots[i].layers
                  IN  /\ Len(l) = 3
                      /\ l[1] = [kind |-> "today_glow", pad |-> 6, fill |-> <<30, 100, 150>>]
                      /\ l[2] = [kind |-> "today_ring", pad |-> 3, fill |-> <<50, 150, 220>>]
                      /\ l[3] = [kind |-> "dot", pad |-> 0, fill |-> <<100, 200, 255>>]
                      /\ ~HasKind(ret.dots[i], "glow")
                      /\ ~HasKind(ret.dots[i], "highlight")

\* C28 witness: current_day_index = 2 below filled_count = 10; dot 2 carries
\* the three today layers while its filled neighbour carries glow and
\* highlight.
C28_Witness ==
    /\ op = "draw_grid"
    /\ args.current_day_index = 2
    /\ args.filled_count = 10
    /\ ret.dots[3].is_today
    /\ ret.dots[3].layers[1].kind = "today_glow"
    /\ ret.dots[4].layers[1].kind = "glow"
    /\ ret.dots[4].layers[3].kind = "highlight"

(***************************************************************************)
(* Life grid before the 90th birthday.                                     *)
(***************************************************************************)
\* C29: for every birth date that is not after today and less than 90
\* calendar years before today, calculate_life_weeks returns
\* weeks_lived < total_weeks and days_lived < total_days: the life grid is
\* never completely filled before the 90th birthday.
C29_GridNotFullBeforeNinety ==
    (/\ op = "calculate_life_weeks"
     /\ DateLE(args.birth_date, ret.today)
     /\ DateLT(ret.today, D(args.birth_date.year + 90, args.birth_date.month,
                            args.birth_date.day))) =>
        /\ ret.weeks_lived < ret.total_weeks
        /\ ret.days_lived < ret.total_days

(***************************************************************************)
(* Footer and grid of one generate_year_calendar call.                     *)
(***************************************************************************)
\* C24: within one generate_year_calendar call the footer counts and the
\* grid's filled and today cells are derived from one value of today and
\* one period, also when the system date changes between the date.today()
\* reads of the call.
C24_FooterAndGridSameDay ==
    (op = "main" /\ ret.generated) =>
        /\ ret.year.counts.today = ret.year.img.today
        /\ ret.year.counts.period_start = ret.year.period_start
        /\ ret.year.counts.period_end = ret.year.period_end

\* C25: for every period with start <= end and every today, the number of
\* enabled cells of the month-row grid equals total_days of
\* calculate_year_weeks and the number of cells drawn filled or today equals
\* days_elapsed; the footer's "<days_remaining>d left" is the number of
\* enabled cells still empty.
C25_GridCountsMatchFooter ==
    LET Cells(img) == {rc \in (1..Len(img.cells)) \X (1..31) : TRUE}
        Enabled(img) == {rc \in Cells(img) : ~img.cells[rc[1]][rc[2]].disabled}
        Done(img) == {rc \in Cells(img) :
                         img.cells[rc[1]][rc[2]].is_filled \/ img.cells[rc[1]][rc[2]].is_today}
    IN  /\ (op = "draw_month_rows_year_calendar"
              /\ DateLE(args.period_start, args.period_end)) =>
              LET c == calculate_year_weeks(args.period_start, args.period_end, ret.today)
              IN  /\ Cardinality(Enabled(ret)) = c.total_days
                  /\ Cardinality(Done(ret)) = c.days_elapsed
        /\ (op = "main" /\ ret.generated
              /\ ret.year.counts.today = ret.year.img.today
              /\ ret.year.counts.period_start = ret.year.period_start
              /\ ret.year.counts.period_end = ret.year.period_end
              /\ DateLE(ret.year.period_start, ret.year.period_end)) =>
              /\ Cardinality(Enabled(ret.year.img)) = ret.year.counts.total_days
              /\ Cardinality(Done(ret.year.img)) = ret.year.counts.days_elapsed
              /\ ret.year.footer_text[1]
                    = Cardinality(Enabled(ret.year.img) \ Done(ret.year.img))

\* C25 witness: a generated year calendar with today inside the period,
\* some days elapsed and some left.
C25_Witness ==
    /\ op = "main" /\ ret.generated
    /\ ret.year.counts.today = ret.year.img.today
    /\ DateLE(ret.year.period_start, ret.year.img.today)
    /\ DateLT(ret.year.img.today, ret.year.period_end)
    /\ ret.year.counts.days_elapsed > 1
    /\ ret.year.footer_text[1] > 0

(***************************************************************************)
(* Progress as the days pass.                                              *)
(***************************************************************************)
\* C26: as today advances with the period fixed (start <= end),
\* days_elapsed never decreases and grows by at most one per day,
\* weeks_elapsed never decreases, days_remaining never increases, and a
\* month-row cell that is filled or today on one day is filled on every
\* later day.
C26_ProgressNeverGoesBack ==
    [][(/\ op' = op /\ args' = args /\ gen' = gen
        /\ op \in {"calculate_year_weeks", "draw_month_rows_year_calendar"}
        /\ DateLT(ret.today, ret'.today))
       => /\ op = "calculate_year_weeks" =>
               ((/\ ret'.period_start = ret.period_start
                 /\ ret'.period_end = ret.period_end
                 /\ DateLE(ret.period_start, ret.period_end)) =>
                   /\ ret'.days_elapsed >= ret.days_elapsed
                   /\ ret'.days_elapsed - ret.days_elapsed
                         <= DaysBetween(ret'.today, ret.today)
                   /\ ret'.weeks_elapsed >= ret.weeks_elapsed
                   /\ ret'.days_remaining <= ret.days_remaining)
          /\ op = "draw_month_rows_year_calendar" =>
               (DateLE(args.period_start, args.period_end) =>
                   \A r \in 1..Len(ret.cells) : \A c \in 1..31 :
                       (ret.cells[r][c].is_filled \/ ret.cells[r][c].is_today) =>
                           /\ ret'.cells[r][c].is_filled
                           /\ ~ret'.cells[r][c].is_today
                           /\ ret'.cells[r][c].dot_color # today_dot)]_vars

\* C26 witness: a result computed one day after a day of TodayDates, with
\* today inside the period and just past a week boundary (14 days elapsed,
\* after 13 the day before).
C26_Witness ==
    /\ op = "calculate_year_weeks"
    /\ \E t0 \in TodayDates : ret.today = NextDay(t0)
    /\ DateLE(ret.period_start, ret.today) /\ DateLE(ret.today, ret.period_end)
    /\ ret.days_elapsed % 7 = 0
    /\ ret.weeks_elapsed > 0
    /\ ret.days_remaining > 0

(***************************************************************************)
(* Termination of the loops (specification SpecLoops).                     *)
(***************************************************************************)
\* C23: every render call terminates: a started month loop and a started
\* dot loop each reach their end; the month loop runs
\* max(0, months from start to end) iterations, zero when the month of
\* period_start is after the month of period_end, and the dot loop runs at
\* most cols*rows iterations.
C23_LoopsTerminate ==
    /\ (op = "month_loop") ~> (op = "month_loop_done")
    /\ (op = "dot_loop") ~> (op = "dot_loop_done")
    /\ [](op = "month_loop_done" =>
            LET ps == args.period_start
                pe == args.period_end
                span == 12 * (pe.year - ps.year) + (pe.month - ps.month) + 1
            IN  /\ ret.iterations = IF span > 0 THEN span ELSE 0
                /\ Len(ret.months) = ret.iterations)
    /\ [](op \in {"dot_loop", "dot_loop_done"} =>
            ret.iterations <= ret.lay.cols * ret.lay.rows)

\* C23 witness: the month loop has ended without an iteration for a period
\* whose start month is after its end month.
C23_Witness ==
    /\ op = "month_loop_done"
    /\ args.period_start = D(2024, 2, 1)
    /\ args.period_end = D(2024, 1, 31)
    /\ ret.iterations = 0
    /\ ret.months = <<>>

(***************************************************************************)
(* Fonts, title and footer (specification SpecText).                       *)
(***************************************************************************)
\* C22: for every combination of loadable and missing font files, font
\* resolution ends with non-null title and footer fonts (and label font in
\* the month-row renderer): the first loadable path of the preference order,
\* or the built-in default font when no path loads.
C22_FontsNeverNull ==
    op \in {"draw_grid", "draw_month_rows_year_calendar"} =>
        LET n == IF op = "draw_grid" THEN 11 ELSE 6
            usable == {i \in args.loadable : i \in 1..n}
            first == IF usable = {} THEN 0
                     ELSE CHOOSE i \in usable : \A k \in usable : i <= k
            f == ret.fonts
        IN  /\ f.title_font.kind # "none"
            /\ f.footer_font.kind # "none"
            /\ op = "draw_month_rows_year_calendar" => f.label_font.kind # "none"
            /\ first # 0 =>
                  /\ f.title_font = [kind |-> "truetype", path |-> first, size |-> 32]
                  /\ f.footer_font = [kind |-> "truetype", path |-> first, size |-> 18]
                  /\ op = "draw_month_rows_year_calendar" =>
                        f.label_font = [kind |-> "truetype", path |-> first, size |-> 16]
            /\ first = 0 =>
                  /\ f.title_font.kind = "default"
                  /\ f.footer_font.kind = "default"
                  /\ op = "draw_month_rows_year_calendar" => f.label_font.kind = "default"

\* C22 witness: a month-row render with no loadable font file that ended
\* with the built-in default fonts and placed its title.
C22_Witness ==
    /\ op = "draw_month_rows_year_calendar"
    /\ args.loadable = {}
    /\ ret.fonts.title_font.kind = "default"
    /\ ret.fonts.label_font.kind = "default"
    /\ ret.title.drawn

\* C30: the title is drawn entirely above the grid and the footer entirely
\* below it, both horizontally centred on the grid:
\* title_y + title_height <= start_y and footer_y >= start_y + grid_height.
C30_TitleAboveFooterBelow ==
    op \in {"draw_grid", "draw_month_rows_year_calendar"} =>
        LET lay == ret.layout
            Centred(x, w) ==
                LET left == x - lay.start_x
                    right == (lay.start_x + lay.grid_width) - (x + w)
                IN  right - left \in {0, 1}
        IN  /\ ret.title.drawn =>
                  /\ ret.title.y + ret.title.height <= lay.start_y
                  /\ Centred(ret.title.x, ret.title.width)
            /\ ret.footer.drawn =>
                  /\ ret.footer.y >= lay.start_y + lay.grid_height
                  /\ Centred(ret.footer.x, ret.footer.width)

(***************************************************************************)
(* Flat day stream against month rows (specification SpecFlat).            *)
(***************************************************************************)
\* C27: for the same period (start <= end) and the same today, the flat day
\* stream of lifecalender_standard.py (dot idx is the date start + idx days)
\* and the month-row calendar of lifecalender.py give every date of the
\* period the same class, filled, empty or today, also when today is before
\* the start or after the end of the period.
C27_FlatStreamMatchesMonthRows ==
    op = "generate_year_calendar" =>
        \A r \in DOMAIN ret.month_rows.cells :
            \A c \in DOMAIN ret.month_rows.cells[r] :
                LET cell == ret.month_rows.cells[r][c]
                    idx == DaysBetween(cell.cell_date, args.period_start)
                IN  ~cell.disabled =>
                        /\ idx + 1 \in DOMAIN ret.standard.dots
                        /\ ret.standard.dots[idx + 1] = MonthCellClass(cell)

(***************************************************************************)
(* Concurrent render calls (specification SpecShared).                     *)
(***************************************************************************)
\* C21: two render calls running concurrently share no mutable state: under
\* every interleaving each call's result equals the result it would produce
\* when run alone, and no call reads state that the other call wrote while
\* it ran, the state of the random-number generators included.
C21_ConcurrentCallsIndependent ==
    \A c \in CallIds :
        ret.calls[c].pc = "done" =>
            /\ ~ret.calls[c].foreign_write
            /\ ret.calls[c].pixels =
                  Background(gen, TRUE,
                             DrawsAlone(ret.calls[c].entry_rng,
                                        ret.calls[c].entry_np_rng)).pixels

====
